---- MODULE Spec2Model ----
(***************************************************************************)
(* Model of the task-tracking automation scripts.                          *)
(*                                                                         *)
(* auto-close script (src/unnamed/part_000): one run reads the latest      *)
(* commit, fetches the unclosed tickets, runs the three matching phases    *)
(* into a result map and persists every entry with markAsCloseCandidate.   *)
(*                                                                         *)
(* Text is modelled character by character.  Short strings (commit         *)
(* messages, file paths, ticket ids) are sequences of one-character        *)
(* strings.  Diff text, whose size limits are thousands of characters, is  *)
(* run-length encoded: a sequence of runs [f, ch, n], n >= 1 copies of the *)
(* character ch, belonging to the diff section of changed file number f.   *)
(* Confidence values and thresholds are fixed-point, in tenths.            *)
(*                                                                         *)
(* Field names of the ticket document are romanised:                       *)
(*   status = "sutetasu", closeCandidate = "kurozu kouho",                 *)
(*   history = "hantei rireki", closedDate = "kurozu bi",                  *)
(*   updatedDate = "koushin bi"; in a history entry at = "nichiji",        *)
(*   reason = "riyuu", method = "hantei houshiki".                         *)
(***************************************************************************)
EXTENDS Integers, Sequences, FiniteSets, TLC

(* ------------------------------------------------------------------ *)
(* Characters and strings                                              *)
(* ------------------------------------------------------------------ *)

UpperLetters == <<"A","B","C","D","E","F","G","H","I","J","K","L","M",
                  "N","O","P","Q","R","S","T","U","V","W","X","Y","Z">>

LowerLetters == <<"a","b","c","d","e","f","g","h","i","j","k","l","m",
                  "n","o","p","q","r","s","t","u","v","w","x","y","z">>

Digits == {"0","1","2","3","4","5","6","7","8","9"}

Whitespace == {" ", "\n", "\t"}

Range(s) == {s[i] : i \in DOMAIN s}

\* Upper-case letter -> lower-case letter.
LowerOf ==
  [ch \in Range(UpperLetters) |->
     LowerLetters[CHOOSE k \in DOMAIN UpperLetters : UpperLetters[k] = ch]]

\* The lower-case form of a character (the regex flag i compares these).
Lower(ch) == IF ch \in DOMAIN LowerOf THEN LowerOf[ch] ELSE ch

\* [a-zA-Z0-9]
Alnum == Range(UpperLetters) \cup Range(LowerLetters) \cup Digits

\* s.slice(i) of a short string (1-based i).
Drop(s, i) == SubSeq(s, i, Len(s))

\* lit occurs in s at position i, compared character by character.
HasAt(s, i, lit) ==
  /\ i >= 1
  /\ i + Len(lit) - 1 <= Len(s)
  /\ \A k \in 1..Len(lit) : s[i + k - 1] = lit[k]

\* The same, ignoring case; lit is given in lower case.
HasAtNoCase(s, i, lit) ==
  /\ i >= 1
  /\ i + Len(lit) - 1 <= Len(s)
  /\ \A k \in 1..Len(lit) : Lower(s[i + k - 1]) = lit[k]

\* String.prototype.includes
Includes(s, lit) == \E i \in 1..(Len(s) + 1) : HasAt(s, i, lit)

\* String.prototype.trim() === ''
IsBlank(s) == \A i \in DOMAIN s : s[i] \in Whitespace

(* ------------------------------------------------------------------ *)
(* Configuration                                                       *)
(* ------------------------------------------------------------------ *)

\* /(?:Closes?|Fix(?:es)?|Resolve[sd]?|Complete[sd]?|Done):\s*TODO-(\d+)/gi
\* The words the verb alternatives accept, in lower case.
COMMIT_VERBS ==
  { <<"c","l","o","s","e">>,
    <<"c","l","o","s","e","s">>,
    <<"f","i","x">>,
    <<"f","i","x","e","s">>,
    <<"r","e","s","o","l","v","e">>,
    <<"r","e","s","o","l","v","e","s">>,
    <<"r","e","s","o","l","v","e","d">>,
    <<"c","o","m","p","l","e","t","e">>,
    <<"c","o","m","p","l","e","t","e","s">>,
    <<"c","o","m","p","l","e","t","e","d">>,
    <<"d","o","n","e">> }

TODO_PREFIX == <<"T","O","D","O","-">>

EXCLUDED_PATTERNS ==
  <<
     <<"p","a","c","k","a","g","e","-","l","o","c","k",".","j","s","o","n">>,   \* package-lock.json
     <<"y","a","r","n",".","l","o","c","k">>,   \* yarn.lock
     <<"p","n","p","m","-","l","o","c","k",".","y","a","m","l">>,   \* pnpm-lock.yaml
     <<"c","o","m","p","o","s","e","r",".","l","o","c","k">>,   \* composer.lock
     <<".","e","n","v">>,   \* .env
     <<".","e","n","v",".","l","o","c","a","l">>,   \* .env.local
     <<".","e","n","v",".","p","r","o","d","u","c","t","i","o","n">>,   \* .env.production
     <<".","e","n","v",".","d","e","v","e","l","o","p","m","e","n","t">>,   \* .env.development
     <<"*",".","k","e","y">>,   \* *.key
     <<"*",".","p","e","m">>,   \* *.pem
     <<"*",".","c","e","r","t">>,   \* *.cert
     <<"*",".","p","1","2">>,   \* *.p12
     <<"s","e","r","v","i","c","e","-","a","c","c","o","u","n","t","-","k","e","y",".","j","s","o","n">>,   \* service-account-key.json
     <<"c","r","e","d","e","n","t","i","a","l","s",".","j","s","o","n">>,   \* credentials.json
     <<"*",".","p","n","g">>,   \* *.png
     <<"*",".","j","p","g">>,   \* *.jpg
     <<"*",".","j","p","e","g">>,   \* *.jpeg
     <<"*",".","g","i","f">>,   \* *.gif
     <<"*",".","p","d","f">>,   \* *.pdf
     <<"*",".","i","c","o">>,   \* *.ico
     <<"*",".","s","v","g">>,   \* *.svg
     <<"*",".","w","o","f","f">>,   \* *.woff
     <<"*",".","w","o","f","f","2">>,   \* *.woff2
     <<"*",".","t","t","f">>,   \* *.ttf
     <<"*",".","e","o","t">>,   \* *.eot
     <<"d","i","s","t","/","*">>,   \* dist/*
     <<"b","u","i","l","d","/","*">>,   \* build/*
     <<"n","o","d","e","_","m","o","d","u","l","e","s","/","*">>,   \* node_modules/*
     <<"v","e","n","d","o","r","/","*">>,   \* vendor/*
     <<".","n","e","x","t","/","*">>,   \* .next/*
     <<"o","u","t","/","*">>,   \* out/*
     <<".","D","S","_","S","t","o","r","e">>,   \* .DS_Store
     <<".","g","i","t","i","g","n","o","r","e">>,   \* .gitignore
     <<"T","h","u","m","b","s",".","d","b">>,   \* Thumbs.db
     <<"d","e","s","k","t","o","p",".","i","n","i">>   \* desktop.ini
  >>

\* Diff size limit of the Phase 3 call, in characters.
MAX_DIFF_SIZE == 6000

\* Diff size limit of the Phase 2 check, in characters (fileDiff.slice(0, 3000)).
PHASE2_DIFF_SIZE == 3000

\* /sk-[a-zA-Z0-9]{20,}/ : the least number of characters after "sk-".
SK_MIN_LEN == 20

\* /AKIA[0-9A-Z]{16}/ : the number of characters after "AKIA".
AKIA_LEN == 16

(* ------------------------------------------------------------------ *)
(* Phase 1: commit message                                             *)
(* ------------------------------------------------------------------ *)

RECURSIVE SkipWhitespace(_, _)
\* \s* from position i: the first position that holds no whitespace.
SkipWhitespace(s, i) ==
  IF i <= Len(s) /\ s[i] \in Whitespace THEN SkipWhitespace(s, i + 1) ELSE i

RECURSIVE SkipDigits(_, _)
\* \d+ is greedy: the first position from i that holds no digit.
SkipDigits(s, i) ==
  IF i <= Len(s) /\ s[i] \in Digits THEN SkipDigits(s, i + 1) ELSE i

\* The verbs with which COMMIT_PATTERN matches at position i: the verb, a
\* colon, optional whitespace, "TODO-" (any case) and at least one digit.
VerbsMatchingAt(s, i) ==
  { v \in COMMIT_VERBS :
      /\ HasAtNoCase(s, i, v)
      /\ HasAt(s, i + Len(v), <<":">>)
      /\ LET j == SkipWhitespace(s, i + Len(v) + 1)
         IN  /\ HasAtNoCase(s, j, <<"t","o","d","o","-">>)
             /\ j + 5 <= Len(s)
             /\ s[j + 5] \in Digits }

\* Where the digits of the match at position i start.
DigitsStart(s, i) ==
  LET v == CHOOSE w \in VerbsMatchingAt(s, i) : TRUE
  IN  SkipWhitespace(s, i + Len(v) + 1) + 5

RECURSIVE ExecAll(_, _, _)
\* The loop of pattern.exec(message): every match from position i on, left to
\* right, each search starting where the last match ended; todos collects
\* 'TODO-' + match[1].
ExecAll(s, i, todos) ==
  IF i > Len(s) THEN todos
  ELSE IF VerbsMatchingAt(s, i) # {}
       THEN LET d == DigitsStart(s, i)
                e == SkipDigits(s, d)
            IN  ExecAll(s, e, Append(todos, TODO_PREFIX \o SubSeq(s, d, e - 1)))
       ELSE ExecAll(s, i + 1, todos)

DedupNothing(todos, seen) == todos

RECURSIVE Dedup(_, _)
\* [...new Set(todos)]: the distinct elements in order of first occurrence.
Dedup(todos, seen) ==
  IF todos = <<>> THEN <<>>
  ELSE IF Head(todos) \in seen
       THEN Dedup(Tail(todos), seen)
       ELSE <<Head(todos)>> \o Dedup(Tail(todos), seen \cup {Head(todos)})

phase1_extractFromMessage(message) == Dedup(ExecAll(message, 1, <<>>), {})

(* ------------------------------------------------------------------ *)
(* Exclusion filter                                                    *)
(* ------------------------------------------------------------------ *)

RECURSIVE RegexFromPattern(_, _)
\* The regular expression isExcludedFile builds from a pattern, anchored at
\* both ends: "." is a literal dot, "*" is ".*" (any characters, "/" too),
\* "?" is "." (one character); does it match path p entirely?
RegexFromPattern(pat, p) ==
  IF pat = <<>> THEN p = <<>>
  ELSE IF Head(pat) = "*"
       THEN \E k \in 0..Len(p) : RegexFromPattern(Tail(pat), Drop(p, k + 1))
       ELSE /\ p # <<>>
            /\ (Head(pat) = "?" \/ Head(pat) = Head(p))
            /\ RegexFromPattern(Tail(pat), Tail(p))

isExcludedFile(filePath) ==
  \E k \in DOMAIN EXCLUDED_PATTERNS : RegexFromPattern(EXCLUDED_PATTERNS[k], filePath)

filterExcludedFiles(changedFiles) ==
  LET Keep(f) == ~isExcludedFile(f) IN SelectSeq(changedFiles, Keep)

(* ------------------------------------------------------------------ *)
(* Diff text (run-length encoded)                                      *)
(* ------------------------------------------------------------------ *)

RECURSIVE TextLen(_)
\* diff.length
TextLen(t) == IF t = <<>> THEN 0 ELSE Head(t).n + TextLen(Tail(t))

RECURSIVE Slice(_, _)
\* diff.slice(0, k): the first k characters.
Slice(t, k) ==
  IF t = <<>> \/ k <= 0 THEN <<>>
  ELSE IF Head(t).n <= k
       THEN <<Head(t)>> \o Slice(Tail(t), k - Head(t).n)
       ELSE <<[Head(t) EXCEPT !.n = k]>>

RECURSIVE CountRun(_, _, _)
\* The number of consecutive characters from run i on that are in class.
CountRun(t, i, class) ==
  IF i <= Len(t) /\ t[i].ch \in class THEN t[i].n + CountRun(t, i + 1, class) ELSE 0

\* The literal "sk-" occupies the runs i - 3 .. i - 1: its first character may
\* be the last one of a longer run of "s", the others are runs of length 1.
\* /sk-[a-zA-Z0-9]{20,}/
MatchesOpenAIKey(t) ==
  \E i \in 4..(Len(t) + 1) :
    /\ t[i - 3].ch = "s"
    /\ t[i - 2].ch = "k" /\ t[i - 2].n = 1
    /\ t[i - 1].ch = "-" /\ t[i - 1].n = 1
    /\ CountRun(t, i, Alnum) >= SK_MIN_LEN

\* [0-9A-Z]
UpperOrDigit == Range(UpperLetters) \cup Digits

\* /AKIA[0-9A-Z]{16}/ : the last "A" of the literal is the first character of
\* run i, whose other characters count towards the sixteen.
MatchesAWSKey(t) ==
  \E i \in 4..Len(t) :
    /\ t[i - 3].ch = "A"
    /\ t[i - 2].ch = "K" /\ t[i - 2].n = 1
    /\ t[i - 1].ch = "I" /\ t[i - 1].n = 1
    /\ t[i].ch = "A"
    /\ (t[i].n - 1) + CountRun(t, i + 1, UpperOrDigit) >= AKIA_LEN

\* The characters diff text is made of in this model.  Of SECRET_PATTERNS only
\* the OpenAI key and the AWS key patterns can match a text over them: the
\* others need a quote, "=", ":", "z", "b" or "B".
DiffChars == {"+", " ", "x", "s", "k", "-", "A", "K", "I", "9"}

detectSecrets(diff) == MatchesOpenAIKey(diff) \/ MatchesAWSKey(diff)

sanitizeDiffNeverThrows(diff, changedFiles) == FALSE

sanitizeDiffThrowsAfterCut(diff, changedFiles) ==
  detectSecrets(IF TextLen(diff) > MAX_DIFF_SIZE THEN Slice(diff, MAX_DIFF_SIZE) ELSE diff)

\* sanitizeDiff either throws (a secret was detected) or returns the diff cut
\* to MAX_DIFF_SIZE characters.  changedFiles is not used by the code.
sanitizeDiffThrows(diff, changedFiles) == detectSecrets(diff)

sanitizeDiffUncut(diff, changedFiles) == diff

sanitizeDiff(diff, changedFiles) ==
  IF TextLen(diff) > MAX_DIFF_SIZE THEN Slice(diff, MAX_DIFF_SIZE) ELSE diff

(* ------------------------------------------------------------------ *)
(* Phase 2: file name matching                                         *)
(* ------------------------------------------------------------------ *)

RECURSIVE SplitPath(_, _)
\* p.split('/'), cur being the segment read so far.
SplitPath(p, cur) ==
  IF p = <<>> THEN <<cur>>
  ELSE IF Head(p) = "/"
       THEN <<cur>> \o SplitPath(Tail(p), <<>>)
       ELSE SplitPath(Tail(p), Append(cur, Head(p)))

RECURSIVE SegmentRegex(_, _)
\* One path segment against one pattern segment: "*" is any run of
\* characters, "?" one character, anything else itself.
SegmentRegex(pat, seg) ==
  IF pat = <<>> THEN seg = <<>>
  ELSE IF Head(pat) = "*"
       THEN \E k \in 0..Len(seg) : SegmentRegex(Tail(pat), Drop(seg, k + 1))
       ELSE /\ seg # <<>>
            /\ (Head(pat) = "?" \/ Head(pat) = Head(seg))
            /\ SegmentRegex(Tail(pat), Tail(seg))

HasMagic(pat) == \E i \in DOMAIN pat : pat[i] \in {"*", "?"}

\* minimatch, one segment: a pattern without wildcards must equal the
\* segment; one with wildcards matches no empty segment and, when it starts
\* with a wildcard, no segment that starts with a dot.
SegmentMatch(pat, seg) ==
  IF ~HasMagic(pat) THEN pat = seg
  ELSE /\ seg # <<>>
       /\ (Head(pat) \in {"*", "?"} => Head(seg) # ".")
       /\ SegmentRegex(pat, seg)

RECURSIVE SegmentsMatch(_, _)
\* minimatch, segment by segment; the segment "**" stands for any number of
\* segments, none of which starts with a dot.
SegmentsMatch(pats, segs) ==
  IF pats = <<>> THEN segs = <<>>
  ELSE IF Head(pats) = <<"*","*">>
       THEN \/ SegmentsMatch(Tail(pats), segs)
            \/ /\ segs # <<>>
               /\ (Head(segs) = <<>> \/ Head(Head(segs)) # ".")
               /\ SegmentsMatch(pats, Tail(segs))
       ELSE /\ segs # <<>>
            /\ SegmentMatch(Head(pats), Head(segs))
            /\ SegmentsMatch(Tail(pats), Tail(segs))

\* minimatch(file, pattern) with the default options, for patterns made of
\* letters, digits, ".", "/", "*" and "?".
minimatch(file, pattern) ==
  SegmentsMatch(SplitPath(pattern, <<>>), SplitPath(file, <<>>))

FileMatchesOneWay(targetFile, file) ==
  IF Includes(targetFile, <<"*">>) \/ Includes(targetFile, <<"?">>)
  THEN minimatch(file, targetFile)
  ELSE Includes(file, targetFile)

\* The test phase2_matchByFileName applies to one changed file.
FileMatches(targetFile, file) ==
  IF Includes(targetFile, <<"*">>) \/ Includes(targetFile, <<"?">>)
  THEN minimatch(file, targetFile)
  ELSE Includes(file, targetFile) \/ Includes(targetFile, file)

\* The artifact file name of a ticket is a string, or missing, or (the store
\* has no schema) a value of another type.
NoArtifact == [kind |-> "undefined", s |-> <<>>]

StringArtifact(s) == [kind |-> "string", s |-> s]

NumberArtifact == [kind |-> "number", s |-> <<>>]

\* !targetFile || targetFile.trim() === ''
ArtifactUnset(a) == a.kind = "undefined" \/ (a.kind = "string" /\ IsBlank(a.s))

\* targetFile.trim() of a value that is no string throws a TypeError.
phase2Throws(changedFiles, unclosedTodos) ==
  \E i \in DOMAIN unclosedTodos : unclosedTodos[i].artifact.kind = "number"

\* The first changed file, in list order, that matches; 0 when none does.
FirstMatch(targetFile, changedFiles) ==
  IF \E k \in DOMAIN changedFiles : FileMatches(targetFile, changedFiles[k])
  THEN CHOOSE k \in DOMAIN changedFiles :
         /\ FileMatches(targetFile, changedFiles[k])
         /\ \A j \in 1..(k - 1) : ~FileMatches(targetFile, changedFiles[j])
  ELSE 0

RECURSIVE phase2_matchByFileName(_, _)
phase2_matchByFileName(changedFiles, unclosedTodos) ==
  IF unclosedTodos = <<>> THEN <<>>
  ELSE LET todo == Head(unclosedTodos)
           rest == phase2_matchByFileName(changedFiles, Tail(unclosedTodos))
       IN  IF ArtifactUnset(todo.artifact) THEN rest
           ELSE LET k == FirstMatch(todo.artifact.s, changedFiles)
                IN  IF k = 0 THEN rest
                    ELSE <<[todoNo      |-> todo.ToDoNo,
                            reason      |-> "file-match",
                            matchedFile |-> changedFiles[k]]>> \o rest

(* ------------------------------------------------------------------ *)
(* The document store                                                  *)
(* ------------------------------------------------------------------ *)

TODO1 == TODO_PREFIX \o <<"1">>

TODO2 == TODO_PREFIX \o <<"2">>

\* The document ids of the todos collection, in the order a query returns them.
TicketIds == <<TODO1, TODO2>>

STATUS_OPEN == "michakushu"

STATUS_CLOSED == "kurozu"

STATUS_IN_PROGRESS == "sagyouchuu"

STATUS_REVIEW_PENDING == "kakuninmachi"

\* A date not set; the clock starts at 1.
NoDate == 0

\* A field that is not set holds the empty sequence, a set one <<value>>.
None == <<>>

Some(v) == <<v>>

\* The projects collection: one project, linked to one repository.
Projects == <<[id |-> "P1", name |-> "Project A", repositories |-> {"org/repo"}]>>

\* A ticket document as created outside this system.
NewTicket(id, projectId, status, artifact, history) ==
  [ToDoNo         |-> id,
   projectId      |-> projectId,
   title          |-> "title",
   status         |-> status,
   artifact       |-> artifact,
   closeCandidate |-> "OFF",
   closedDate     |-> NoDate,
   updatedDate    |-> NoDate,
   aiAnalysis     |-> None,
   history        |-> history]

\* snapshot.docs.map(doc => doc.data()): the documents of the collection in
\* document order.
DocsOf(coll) ==
  LET ids == SelectSeq(TicketIds, LAMBDA id : id \in DOMAIN coll)
  IN  [i \in DOMAIN ids |-> coll[ids[i]]]

\* todos.filter(t => t.status !== closed)
Unclosed(docs) == SelectSeq(docs, LAMBDA t : t.status # STATUS_CLOSED)

\* getUnclosedTodos when the store answers; when it throws, the catch block
\* returns [].
getUnclosedTodos(coll, repository) ==
  IF repository = ""
  THEN Unclosed(DocsOf(coll))
  ELSE LET linked == SelectSeq(Projects, LAMBDA p : repository \in p.repositories)
       IN  IF linked = <<>> THEN <<>>
           ELSE Unclosed(SelectSeq(DocsOf(coll), LAMBDA t : t.projectId = linked[1].id))

\* The Japanese status markAsCloseCandidate writes for params.status.
StatusForUnchecked(todo, params) ==
  IF params.status = "" THEN todo.status
  ELSE IF params.status = "closed" THEN STATUS_CLOSED
  ELSE IF params.status = "in_progress" THEN STATUS_IN_PROGRESS
  ELSE STATUS_REVIEW_PENDING

StatusFor(todo, params) ==
  IF params.status \in {"closed", "in_progress", "review_pending"}
  THEN IF params.status = "closed" THEN STATUS_CLOSED
       ELSE IF params.status = "in_progress" THEN STATUS_IN_PROGRESS
       ELSE STATUS_REVIEW_PENDING
  ELSE todo.status

\* todo.aiAnalysis as markAsCloseCandidate sets it.
AnalysisFor(todo, params, now) ==
  IF params.aiAnalysis # None
  THEN LET a == params.aiAnalysis[1]
       IN  Some([analyzedAt |-> IF a.analyzedAt # NoDate THEN a.analyzedAt ELSE now,
                 confidence |-> a.confidence,
                 reason     |-> IF a.reason # "" THEN a.reason ELSE "",
                 model      |-> IF a.model # "" THEN a.model ELSE "gpt-4o"])
  ELSE todo.aiAnalysis

\* The label ("hantei houshiki") of the history entry.
MethodLabel(params) ==
  IF params.aiAnalysis # None THEN "Phase3 (AI)"
  ELSE IF params.commitHash # "" THEN "Phase1 (commit message)"
  ELSE "Phase2 (file match)"

historyEntry(params, now) ==
  [at            |-> now,
   reason        |-> IF params.reason # "" THEN params.reason ELSE "close-candidate",
   commitHash    |-> params.commitHash,
   commitMessage |-> params.commitMessage,
   method        |-> MethodLabel(params)]

MarkedTodoOverwriting(todo, params, now) ==
  [todo EXCEPT
     !.closeCandidate = "ON",
     !.status         = StatusFor(todo, params),
     !.aiAnalysis     = AnalysisFor(todo, params, now),
     !.history        = <<historyEntry(params, now)>>,
     !.closedDate     = IF params.status = "closed" THEN now ELSE todo.closedDate,
     !.updatedDate    = now]

\* The document markAsCloseCandidate builds from the one it read.
MarkedTodo(todo, params, now) ==
  [todo EXCEPT
     !.closeCandidate = "ON",
     !.status         = StatusFor(todo, params),
     !.aiAnalysis     = AnalysisFor(todo, params, now),
     !.history        = Append(todo.history, historyEntry(params, now)),
     !.closedDate     = IF params.status = "closed" THEN now ELSE todo.closedDate,
     !.updatedDate    = now]

\* doc.set(data, { merge: true }): the fields of data replace the stored ones,
\* the stored fields data lacks stay.
MergeSet(stored, data) ==
  [k \in DOMAIN stored \cup DOMAIN data |->
     IF k \in DOMAIN data THEN data[k] ELSE stored[k]]

\* markAsCloseCandidate: it throws when the ticket does not exist or the
\* write fails (writeOk is the store's answer), and the store is then as it
\* was; otherwise the store holds the marked ticket.
markThrows(coll, todoNo, writeOk) == todoNo \notin DOMAIN coll \/ ~writeOk

\* error.message of that exception.
markError(coll, todoNo) ==
  IF todoNo \notin DOMAIN coll THEN "not found" ELSE "write failed"

markAsCloseCandidateWritesFirst(coll, todoNo, params, now, writeOk) ==
  IF todoNo \notin DOMAIN coll THEN coll
  ELSE [coll EXCEPT ![todoNo] = MarkedTodo(coll[todoNo], params, now)]

markAsCloseCandidate(coll, todoNo, params, now, writeOk) ==
  IF markThrows(coll, todoNo, writeOk) THEN coll
  ELSE [coll EXCEPT ![todoNo] = MergeSet(coll[todoNo], MarkedTodo(coll[todoNo], params, now))]

(* ------------------------------------------------------------------ *)
(* Inputs of a run                                                     *)
(* ------------------------------------------------------------------ *)

\* The longest result list the Phase 3 model call answers with.
MaxResults == 2

\* The most markAsCloseCandidate calls of the specification SpecMark.
MaxCalls == 2

AI_MODEL == "gpt-4o"

P_FOO == <<"s","r","c","/","f","o","o",".","t","s">>

P_LOCK == <<"y","a","r","n",".","l","o","c","k">>

P_ENV == <<".","e","n","v">>

Run(f, ch, n) == [f |-> f, ch |-> ch, n |-> n]

\* A changed file with its section of the diff.
Changed(path, text) ==
  [path |-> path, diff |-> [i \in DOMAIN text |-> Run(path, text[i][1], text[i][2])]]

T_PLAIN == << <<"+", 1>>, <<"x", 40>> >>

T_OPENAI_KEY == << <<"+", 1>>, <<"x", 8>>, <<" ", 1>>, <<"s", 1>>, <<"k", 1>>, <<"-", 1>>, <<"x", 12>>, <<"9", 8>> >>

T_SHORT_KEY == << <<"+", 1>>, <<"s", 1>>, <<"k", 1>>, <<"-", 1>>, <<"x", 19>>, <<" ", 1>> >>

T_LONG == << <<"+", 1>>, <<"x", 6000>> >>

T_LONG_KEY == << <<"+", 1>>, <<"x", 5998>>, <<" ", 1>>, <<"s", 2>>, <<"k", 1>>, <<"-", 1>>, <<"9", 24>> >>

T_AWS_KEY == << <<"+", 1>>, <<"A", 1>>, <<"K", 1>>, <<"I", 1>>, <<"A", 3>>, <<"9", 14>> >>

\* The changed files of the latest commit, with their diffs.
FileSamples ==
  { <<Changed(P_FOO, T_PLAIN)>>,
    <<Changed(P_FOO, T_OPENAI_KEY)>>,
    <<Changed(P_FOO, T_SHORT_KEY)>>,
    <<Changed(P_FOO, T_LONG)>>,
    <<Changed(P_FOO, T_LONG_KEY)>>,
    <<Changed(P_LOCK, T_PLAIN), Changed(P_FOO, T_PLAIN)>>,
    <<Changed(P_ENV, T_AWS_KEY)>> }

M_CLOSES == <<"C","l","o","s","e","s",":"," ">> \o TODO1

M_REPEAT == M_CLOSES \o <<"\n">> \o M_CLOSES \o <<" ","f","i","x",":">> \o <<"t","o","d","o","-","2">>

M_NONE == <<"u","p","d","a","t","e"," ">> \o TODO2

M_OTHER == <<"D","o","n","e",":","\t">> \o TODO2 \o <<"1">>

MessageSamples == {M_CLOSES, M_REPEAT, M_NONE, M_OTHER}

\* hash.substring(0, 10)
ShortHash(hash) == IF hash = "" THEN "" ELSE "0123456789"

RECURSIVE FirstLineEnd(_, _)
FirstLineEnd(s, i) ==
  IF i > Len(s) \/ s[i] = "\n" THEN i - 1 ELSE FirstLineEnd(s, i + 1)

\* message.split('\n')[0]
FirstLine(s) == SubSeq(s, 1, FirstLineEnd(s, 1))

\* The repository as the git commands show it: the commands fail in the first.
GitSamples ==
  {[hash |-> "", message |-> <<>>, files |-> <<>>]}
  \cup [hash : {"0123456789abcdef"}, message : MessageSamples, files : FileSamples]

\* process.env as the script reads it at load time.  Thresholds in tenths.
EnvSamples ==
  [AI_ANALYSIS_ENABLED         : BOOLEAN,
   PHASE2_AI_ENABLED           : BOOLEAN,
   OPENAI_API_KEY              : BOOLEAN,
   AI_CONFIDENCE_THRESHOLD     : {7},
   PHASE2_CONFIDENCE_THRESHOLD : {0, 5},
   REPOSITORY                  : {"", "org/repo"}]
  \cup [AI_ANALYSIS_ENABLED         : {TRUE},
        PHASE2_AI_ENABLED           : {TRUE},
        OPENAI_API_KEY              : {TRUE},
        AI_CONFIDENCE_THRESHOLD     : {7},
        PHASE2_CONFIDENCE_THRESHOLD : {5},
        REPOSITORY                  : {"org/other"}]

A_FOO == StringArtifact(<<"f","o","o",".","t","s">>)

A_GLOB == StringArtifact(<<"s","r","c","/","*",".","t","s">>)

A_BAR == StringArtifact(<<"s","r","c","/","b","a","r",".","t","s">>)

OldEntry ==
  [at |-> NoDate, reason |-> "manual", commitHash |-> "", commitMessage |-> <<>>,
   method |-> "Phase2 (file match)"]

\* The todos collection before the run.
StoreSamples ==
  LET t1 == { NewTicket(TODO1, "P1", STATUS_OPEN, a, <<>>) : a \in {A_FOO, NoArtifact} }
      t2 == { NewTicket(TODO2, "P1", STATUS_OPEN, A_GLOB, <<OldEntry>>),
              NewTicket(TODO2, "P1", STATUS_CLOSED, A_GLOB, <<OldEntry>>),
              NewTicket(TODO2, "P2", STATUS_OPEN, A_BAR, <<>>),
              NewTicket(TODO2, "P1", STATUS_OPEN, NumberArtifact, <<>>) }
  IN  { [id \in {TODO1, TODO2} |-> IF id = TODO1 THEN a ELSE b] : a \in t1, b \in t2 }
      \cup { [id \in {TODO2} |-> b] : b \in t2 }

\* What the model answers to a Phase 2 check: an error (the request fails or
\* the answer is no JSON) or a confidence.
Phase2Responses ==
  {[error |-> TRUE, confidence |-> 0]} \cup [error : {FALSE}, confidence : {4, 5}]

RECURSIVE SeqsUpTo(_, _)
SeqsUpTo(S, n) ==
  IF n = 0 THEN {<<>>}
  ELSE LET shorter == SeqsUpTo(S, n - 1)
       IN  shorter \cup {Append(s, x) : s \in {t \in shorter : Len(t) = n - 1}, x \in S}

\* What the model answers to the Phase 3 call: an error or a result list.
Phase3Responses ==
  {[error |-> TRUE, results |-> <<>>]}
  \cup { [error |-> FALSE, results |-> rs] :
           rs \in SeqsUpTo([todoNo : {TODO1, TODO2}, confidence : {6, 7}], MaxResults) }

(* ------------------------------------------------------------------ *)
(* State                                                               *)
(* ------------------------------------------------------------------ *)

VARIABLES
  env,            \* process.env, read when the script is loaded
  git,            \* what the git commands answer: hash, message, files and diffs
  todos,          \* the todos collection of the store: document id -> document
  todos0,         \* the todos collection at the start (never changed)
  clock,          \* new Date(): advances with every markAsCloseCandidate call
  pc,             \* where main is
  filteredFiles,  \* main: filteredFiles
  unclosedTodos,  \* main: unclosedTodos
  results,        \* main: the Map results, ticket id -> entry
  order,          \* main: the keys of results in insertion order
  phase2Matches,  \* main: phase2Matches
  idx,            \* the position of the Phase 2 loop, then of the persistence loop
  calls,          \* every request sent to the model API, in order
  checks,         \* the result of every Phase 2 model check, as the console shows it
  phase3,         \* how Phase 3 ended, as the console shows it
  phase3Results,  \* main: phase3Results
  aiReturned,     \* phase3_analyzeWithAI: aiResults, what the model returned
  marks,          \* ticket id -> number of markAsCloseCandidate calls that returned
  failed,         \* the markAsCloseCandidate calls that threw, with the error message
  successCount,   \* main: successCount
  errorCount,     \* main: errorCount
  exitCode,       \* the code of process.exit; -1 while running
  inflight,       \* concurrent invocations: the markAsCloseCandidate call each is in
  argv,           \* minutes analyzer: process.argv.slice(2)
  fsFiles,        \* minutes analyzer: the files that exist, path -> size in bytes
  options,        \* minutes analyzer, main: options
  analysisResult, \* minutes analyzer, main: analysisResult
  resolvedProjectId, \* minutes analyzer, main: resolvedProjectId
  projectLookup,  \* minutes analyzer: how findProjectByName ended, as the console shows it
  projectDocs,    \* the collection 'projects' of the store, in document order
  issueDocs,      \* the collection 'issues' of the store
  pendingMinutes, \* the collection 'pendingMinutes' of the store
  pending_minutes \* the collection 'pending_minutes' of the store

vars ==
  <<env, git, todos, todos0, clock, pc, filteredFiles, unclosedTodos, results, order,
    phase2Matches, idx, calls, checks, phase3, phase3Results, aiReturned, marks, failed, successCount,
    errorCount, exitCode, inflight, argv, fsFiles, options, analysisResult, resolvedProjectId,
    projectLookup, projectDocs, issueDocs, pendingMinutes, pending_minutes>>

\* The state of the minutes analyzer and of the collections only it reads.
minutesVars ==
  <<argv, fsFiles, options, analysisResult, resolvedProjectId, projectLookup, projectDocs,
    issueDocs, pendingMinutes, pending_minutes>>

\* parseArgs: the options before the arguments are read.
DefaultOptions == [file |-> <<>>, projectId |-> "", commit |-> "", pushedBy |-> ""]

\* The minutes analyzer has not run and its collections are empty.
MinutesIdle ==
  /\ argv = <<>>
  /\ fsFiles = <<>>
  /\ options = DefaultOptions
  /\ analysisResult = <<>>
  /\ resolvedProjectId = ""
  /\ projectLookup = "not run"
  /\ projectDocs = <<>>
  /\ issueDocs = <<>>
  /\ pendingMinutes = <<>>
  /\ pending_minutes = <<>>

NoResults == [id \in {} |-> 0]

\* Two invocations of the script, as two pushes start them.
Invocations == {"A", "B"}

\* An invocation that has not called markAsCloseCandidate yet.
NotCalled == [pc |-> "ready", todoNo |-> <<>>, todo |-> <<>>]

InitCommon ==
  /\ todos0 = todos
  /\ clock = 1
  /\ filteredFiles = <<>>
  /\ unclosedTodos = <<>>
  /\ results = NoResults
  /\ order = <<>>
  /\ phase2Matches = <<>>
  /\ idx = 0
  /\ calls = <<>>
  /\ checks = <<>>
  /\ phase3 = "not run"
  /\ phase3Results = <<>>
  /\ aiReturned = <<>>
  /\ marks = [id \in DOMAIN todos |-> 0]
  /\ failed = {}
  /\ successCount = 0
  /\ errorCount = 0
  /\ exitCode = -1
  /\ inflight = [r \in Invocations |-> NotCalled]

Init ==
  /\ env \in EnvSamples
  /\ git \in GitSamples
  /\ todos \in StoreSamples
  /\ pc = "start"
  /\ InitCommon
  /\ MinutesIdle

(* ------------------------------------------------------------------ *)
(* The run of the auto-close script                                    *)
(* ------------------------------------------------------------------ *)

\* process.exit(code)
Exit(code) ==
  /\ pc' = "exited"
  /\ exitCode' = code

\* results.set(todoNo, entry) on the pair <<results, order>>.
MapSet(map, todoNo, entry) ==
  [r |-> [id \in DOMAIN map.r \cup {todoNo} |-> IF id = todoNo THEN entry ELSE map.r[id]],
   o |-> IF todoNo \in DOMAIN map.r THEN map.o ELSE Append(map.o, todoNo)]

\* results.has(todoNo)
MapHasNever(map, todoNo) == FALSE

MapHas(map, todoNo) == todoNo \in DOMAIN map.r

Entry(status, reason, phase, aiAnalysis) ==
  [status        |-> status,
   reason        |-> reason,
   phase         |-> phase,
   commitHash    |-> ShortHash(git.hash),
   commitMessage |-> FirstLine(git.message),
   aiAnalysis    |-> aiAnalysis]

Analysis(confidence, reason, now) ==
  Some([analyzedAt |-> now, confidence |-> confidence, reason |-> reason, model |-> AI_MODEL])

\* getLatestCommit: null when the hash or the message is empty.
getLatestCommit == IF git.hash = "" \/ git.message = <<>> THEN None ELSE Some(git)

\* getChangedFiles
getChangedFiles == [i \in DOMAIN git.files |-> git.files[i].path]

RECURSIVE Concat(_)
Concat(texts) == IF texts = <<>> THEN <<>> ELSE Head(texts) \o Concat(Tail(texts))

\* getCommitDiff: git show, the diff sections of all changed files.
getCommitDiff == Concat([i \in DOMAIN git.files |-> git.files[i].diff])

\* getFileDiff: git show -- file, the diff section of that file.
getFileDiff(filePath) ==
  Concat([i \in DOMAIN git.files |->
            IF git.files[i].path = filePath THEN git.files[i].diff ELSE <<>>])

\* main, lines 616-652: the commit, the changed files, the unclosed tickets.
\* storeOk is whether the store answers the queries of getUnclosedTodos.
Start ==
  /\ pc = "start"
  /\ IF getLatestCommit = None
     THEN /\ Exit(1)
          /\ UNCHANGED <<filteredFiles, unclosedTodos>>
     ELSE \E storeOk \in BOOLEAN :
            LET fetched == IF storeOk THEN getUnclosedTodos(todos, env.REPOSITORY) ELSE <<>>
            IN  /\ filteredFiles' = filterExcludedFiles(getChangedFiles)
                /\ unclosedTodos' = fetched
                /\ IF Len(fetched) = 0
                   THEN Exit(0)
                   ELSE pc' = "phase1" /\ UNCHANGED exitCode
  /\ UNCHANGED <<env, git, todos, todos0, clock, results, order, phase2Matches, idx, calls,
                 checks, phase3, phase3Results, aiReturned, marks, failed, successCount, errorCount>>
  /\ UNCHANGED minutesVars
  /\ UNCHANGED inflight

RECURSIVE SetAll(_, _, _)
\* for (const todoNo of ids) results.set(todoNo, entry)
SetAll(map, ids, entry) ==
  IF ids = <<>> THEN map ELSE SetAll(MapSet(map, Head(ids), entry), Tail(ids), entry)

Phase1EntryNoStatus == Entry("", "commit-message", "Phase1", None)

Phase1Entry == Entry("closed", "commit-message", "Phase1", None)

\* main, lines 655-676: Phase 1.
Phase1 ==
  /\ pc = "phase1"
  /\ LET map == SetAll([r |-> results, o |-> order],
                       phase1_extractFromMessage(git.message), Phase1Entry)
     IN  results' = map.r /\ order' = map.o
  /\ pc' = "phase2"
  /\ UNCHANGED <<env, git, todos, todos0, clock, filteredFiles, unclosedTodos, phase2Matches,
                 idx, calls, checks, phase3, phase3Results, aiReturned, marks, failed, successCount,
                 errorCount, exitCode>>
  /\ UNCHANGED minutesVars
  /\ UNCHANGED inflight

RECURSIVE SetUnlessHas(_, _)
\* for (const m of items) if (!results.has(m.todoNo)) results.set(m.todoNo, m.entry)
SetUnlessHas(map, items) ==
  IF items = <<>> THEN map
  ELSE LET m == Head(items)
       IN  SetUnlessHas(IF MapHas(map, m.todoNo) THEN map ELSE MapSet(map, m.todoNo, m.entry),
                        Tail(items))

Phase2PlainEntryWithConfidence(m) ==
  Entry("", m.reason, "Phase2 (plain)", Analysis(0, "", clock))

Phase2PlainEntry(m) == Entry("", m.reason, "Phase2 (plain)", None)

\* main, lines 680-686 and 733-755: the file name matches and, when the model
\* check is off or has no key, the entries of all of them.  An exception of
\* phase2_matchByFileName is caught by main().catch, which exits with 1.
Phase2Match ==
  /\ pc = "phase2"
  /\ IF phase2Throws(filteredFiles, unclosedTodos)
     THEN /\ Exit(1)
          /\ UNCHANGED <<results, order, phase2Matches, idx>>
     ELSE LET matches == phase2_matchByFileName(filteredFiles, unclosedTodos)
              map     == SetUnlessHas([r |-> results, o |-> order],
                                      [i \in DOMAIN matches |->
                                         [todoNo |-> matches[i].todoNo,
                                          entry  |-> Phase2PlainEntry(matches[i])]])
          IN  /\ phase2Matches' = matches
              /\ UNCHANGED exitCode
              /\ IF Len(matches) = 0
                 THEN pc' = "phase3" /\ UNCHANGED <<results, order, idx>>
                 ELSE IF env.PHASE2_AI_ENABLED /\ env.OPENAI_API_KEY
                 THEN pc' = "phase2ai" /\ idx' = 1 /\ UNCHANGED <<results, order>>
                 ELSE pc' = "phase3" /\ results' = map.r /\ order' = map.o /\ UNCHANGED idx
  /\ UNCHANGED <<env, git, todos, todos0, clock, filteredFiles, unclosedTodos, calls, checks,
                 phase3, phase3Results, aiReturned, marks, failed, successCount, errorCount>>
  /\ UNCHANGED minutesVars
  /\ UNCHANGED inflight

\* quickAICheck: the request it sends and the result it returns for the
\* model's answer.
quickAIRequest(fileDiff, todo) ==
  [phase  |-> "Phase2",
   source |-> fileDiff,
   diff   |-> Slice(fileDiff, PHASE2_DIFF_SIZE),
   todos  |-> {todo.ToDoNo}]

quickAICheck(response) ==
  IF response.error
  THEN [confidence |-> 0, reason |-> "ai-check-error"]
  ELSE [confidence |-> response.confidence, reason |-> "ai-check-done"]

Phase2AIEntry(m, aiResult) ==
  Entry("", "file-match - " \o aiResult.reason, "Phase2 (AI)",
        Analysis(aiResult.confidence, aiResult.reason, clock))

\* aiResult.confidence >= PHASE2_CONFIDENCE_THRESHOLD
Phase2AcceptsBelow(aiResult) == aiResult.confidence <= env.PHASE2_CONFIDENCE_THRESHOLD

Phase2Accepts(aiResult) == aiResult.confidence >= env.PHASE2_CONFIDENCE_THRESHOLD

\* main, lines 689-732: one turn of the loop of the Phase 2 model check.
Phase2Check ==
  /\ pc = "phase2ai"
  /\ LET m    == phase2Matches[idx]
         todo == unclosedTodos[CHOOSE i \in DOMAIN unclosedTodos :
                                 unclosedTodos[i].ToDoNo = m.todoNo]
     IN  IF MapHas([r |-> results, o |-> order], m.todoNo)
         THEN UNCHANGED <<results, order, calls, checks>>
         ELSE \E response \in Phase2Responses :
                LET aiResult == quickAICheck(response)
                    map      == MapSet([r |-> results, o |-> order], m.todoNo,
                                       Phase2AIEntry(m, aiResult))
                IN  /\ calls' = Append(calls, quickAIRequest(getFileDiff(m.matchedFile), todo))
                    /\ checks' = Append(checks, [todoNo     |-> m.todoNo,
                                                 error      |-> response.error,
                                                 confidence |-> aiResult.confidence])
                    /\ IF Phase2Accepts(aiResult)
                       THEN results' = map.r /\ order' = map.o
                       ELSE UNCHANGED <<results, order>>
  /\ IF idx = Len(phase2Matches)
     THEN pc' = "phase3" /\ UNCHANGED idx
     ELSE idx' = idx + 1 /\ UNCHANGED pc
  /\ UNCHANGED <<env, git, todos, todos0, clock, filteredFiles, unclosedTodos, phase2Matches,
                 phase3, phase3Results, aiReturned, marks, failed, successCount, errorCount, exitCode>>
  /\ UNCHANGED minutesVars
  /\ UNCHANGED inflight

\* analyzeWithAI: the request it sends.
analyzeRequest(diff, source, todoList) ==
  [phase  |-> "Phase3",
   source |-> source,
   diff   |-> diff,
   todos  |-> {todoList[i].ToDoNo : i \in DOMAIN todoList}]

FilterNothing(aiResults) == aiResults

\* aiResults.filter(r => r.confidence >= AI_CONFIDENCE_THRESHOLD)
FilterByConfidence(aiResults) ==
  SelectSeq(aiResults, LAMBDA r : r.confidence >= env.AI_CONFIDENCE_THRESHOLD)

Phase3Entry(r) ==
  Entry("", "model-reason", "Phase3", Analysis(r.confidence, "model-reason", clock))

\* main, lines 761-793, with phase3_analyzeWithAI: Phase 3.
Phase3 ==
  /\ pc = "phase3"
  /\ pc' = "merge"
  /\ IF ~env.AI_ANALYSIS_ENABLED
     THEN phase3' = "disabled" /\ UNCHANGED <<results, order, calls, phase3Results, aiReturned>>
     ELSE IF ~env.OPENAI_API_KEY
     THEN phase3' = "no key" /\ UNCHANGED <<results, order, calls, phase3Results, aiReturned>>
     ELSE LET diff == getCommitDiff
          IN  IF sanitizeDiffThrows(diff, filteredFiles)
              THEN /\ phase3' = "secret detected"
                   /\ UNCHANGED <<results, order, calls, phase3Results, aiReturned>>
              ELSE /\ calls' = Append(calls, analyzeRequest(sanitizeDiff(diff, filteredFiles),
                                                            diff, unclosedTodos))
                   /\ \E response \in Phase3Responses :
                        IF response.error
                        THEN /\ phase3' = "model error"
                             /\ UNCHANGED <<results, order, phase3Results, aiReturned>>
                        ELSE LET filtered == FilterByConfidence(response.results)
                                 map == SetUnlessHas([r |-> results, o |-> order],
                                                     [i \in DOMAIN filtered |->
                                                        [todoNo |-> filtered[i].todoNo,
                                                         entry  |-> Phase3Entry(filtered[i])]])
                             IN  /\ phase3' = "done"
                                 /\ phase3Results' = filtered
                                 /\ aiReturned' = response.results
                                 /\ results' = map.r
                                 /\ order' = map.o
  /\ UNCHANGED <<env, git, todos, todos0, clock, filteredFiles, unclosedTodos, phase2Matches,
                 idx, checks, marks, failed, successCount, errorCount, exitCode>>
  /\ UNCHANGED minutesVars
  /\ UNCHANGED inflight

\* main, lines 801-826: nothing matched, or on to the persistence loop.
Merge ==
  /\ pc = "merge"
  /\ IF Len(order) = 0
     THEN Exit(0) /\ UNCHANGED idx
     ELSE pc' = "persist" /\ idx' = 1 /\ UNCHANGED exitCode
  /\ UNCHANGED <<env, git, todos, todos0, clock, filteredFiles, unclosedTodos, results, order,
                 phase2Matches, calls, checks, phase3, phase3Results, aiReturned, marks, failed,
                 successCount, errorCount>>
  /\ UNCHANGED minutesVars
  /\ UNCHANGED inflight

\* process.exit(errorCount > 0 ? 1 : 0)
ExitCodeIfNoneWritten(successes, errors) == IF successes = 0 THEN 1 ELSE 0

ExitCodeFor(successes, errors) == IF errors > 0 THEN 1 ELSE 0

\* main, lines 831-858: one turn of the persistence loop; after the last one
\* the process exits.  writeOk is whether the store accepts the write.
Persist ==
  /\ pc = "persist"
  /\ \E writeOk \in BOOLEAN :
       LET todoNo    == order[idx]
           threw     == markThrows(todos, todoNo, writeOk)
           errors    == IF threw THEN errorCount + 1 ELSE errorCount
           successes == IF threw THEN successCount ELSE successCount + 1
       IN  /\ todos' = markAsCloseCandidate(todos, todoNo, results[todoNo], clock, writeOk)
           /\ clock' = clock + 1
           /\ IF threw
              THEN /\ failed' = failed \cup {[todoNo  |-> todoNo,
                                              message |-> markError(todos, todoNo)]}
                   /\ UNCHANGED marks
              ELSE /\ marks' = [marks EXCEPT ![todoNo] = @ + 1]
                   /\ UNCHANGED failed
           /\ errorCount' = errors
           /\ successCount' = successes
           /\ IF idx = Len(order)
              THEN Exit(ExitCodeFor(successes, errors)) /\ UNCHANGED idx
              ELSE idx' = idx + 1 /\ UNCHANGED <<pc, exitCode>>
  /\ UNCHANGED <<env, git, todos0, filteredFiles, unclosedTodos, results, order,
                 phase2Matches, calls, checks, phase3, phase3Results, aiReturned>>
  /\ UNCHANGED minutesVars
  /\ UNCHANGED inflight

Next ==
  \/ Start
  \/ Phase1
  \/ Phase2Match
  \/ Phase2Check
  \/ Phase3
  \/ Merge
  \/ Persist

Spec == Init /\ [][Next]_vars

(* ------------------------------------------------------------------ *)
(* markAsCloseCandidate called any number of times                     *)
(* ------------------------------------------------------------------ *)

\* The params a caller passes: the entries the phases build, and entries with
\* the other values of status, without a reason and without a commit hash.
Params(status, reason, commitHash, aiAnalysis) ==
  [status |-> status, reason |-> reason, phase |-> "", commitHash |-> commitHash,
   commitMessage |-> <<>>, aiAnalysis |-> aiAnalysis]

ParamSamples ==
  { Params("closed", "commit-message", "0123456789", None),
    Params("", "file-match", "0123456789", None),
    Params("", "model-reason", "0123456789", Analysis(7, "model-reason", NoDate)),
    Params("in_progress", "why", "0123456789", None),
    Params("review_pending", "", "", None),
    Params("cancelled", "why", "", None),
    Params("closed", "", "", Analysis(0, "", NoDate)) }

InitMark ==
  /\ env \in {e \in EnvSamples : e.REPOSITORY = "org/other"}
  /\ git \in {g \in GitSamples : g.hash = ""}
  /\ todos \in StoreSamples
  /\ pc = "mark"
  /\ InitCommon
  /\ MinutesIdle

\* One call of markAsCloseCandidate(todoNo, params).
Mark ==
  /\ pc = "mark"
  /\ clock <= MaxCalls
  /\ \E todoNo \in {TODO1, TODO2}, params \in ParamSamples, writeOk \in BOOLEAN :
       /\ todos' = markAsCloseCandidate(todos, todoNo, params, clock, writeOk)
       /\ IF markThrows(todos, todoNo, writeOk)
          THEN /\ failed' = failed \cup {[todoNo  |-> todoNo,
                                          message |-> markError(todos, todoNo)]}
               /\ UNCHANGED marks
          ELSE /\ marks' = [marks EXCEPT ![todoNo] = @ + 1]
               /\ UNCHANGED failed
  /\ clock' = clock + 1
  /\ UNCHANGED <<env, git, todos0, pc, filteredFiles, unclosedTodos, results, order,
                 phase2Matches, idx, calls, checks, phase3, phase3Results, aiReturned, successCount,
                 errorCount, exitCode>>
  /\ UNCHANGED minutesVars
  /\ UNCHANGED inflight

NextMark == Mark

SpecMark == InitMark /\ [][NextMark]_vars

(* ------------------------------------------------------------------ *)
(* Phase 1 on its own, over many commit messages                       *)
(* ------------------------------------------------------------------ *)

MaxTokens == 3

TODO12 == TODO_PREFIX \o <<"1","2">>

K_CLOSES12 == <<"C","l","o","s","e","s",":"," ">> \o TODO12

\* The pieces the commit messages are put together from.
MessageTokens ==
  { K_CLOSES12,
    <<"f","i","x",":","t","o","d","o","-","1","2">>,
    <<"R","e","s","o","l","v","e","d",":","\n","\t","T","O","D","O","-","0","7">>,
    <<"D","o","n","e"," ","T","O","D","O","-","3">>,
    <<"F","i","x","e","s",":"," ","T","O","D","O","-">>,
    <<"1">>,
    <<"\n">> }

Phase1Messages == {Concat(ts) : ts \in SeqsUpTo(MessageTokens, MaxTokens)} \ {<<>>}

InitPhase1 ==
  /\ env \in {e \in EnvSamples : e.REPOSITORY = "org/other"}
  /\ git \in [hash : {"0123456789abcdef"}, message : Phase1Messages, files : {<<>>}]
  /\ todos \in {s \in StoreSamples : DOMAIN s = {TODO2} /\ s[TODO2].projectId = "P2"}
  /\ pc = "phase1"
  /\ InitCommon
  /\ MinutesIdle

NextPhase1 == Phase1

SpecPhase1 == InitPhase1 /\ [][NextPhase1]_vars

(* ------------------------------------------------------------------ *)
(* The minutes analyzer                                                *)
(* ------------------------------------------------------------------ *)

MAX_FILE_SIZE == 50000

\* The quotation marks U+2018, U+2019, U+201C, U+201D and the straight ones.
LSQUO == "u2018"

RSQUO == "u2019"

LDQUO == "u201C"

RDQUO == "u201D"

APOS == "'"

QUOT == "\""

RECURSIVE parseArgsFrom(_, _, _)
\* The loop of parseArgs from position i on: an option name followed by a
\* value takes the value and skips it; anything else is passed over.
parseArgsFrom(args, i, opts) ==
  IF i > Len(args) THEN opts
  ELSE IF args[i] = "--file" /\ i + 1 <= Len(args)
       THEN parseArgsFrom(args, i + 2, [opts EXCEPT !.file = Some(args[i + 1])])
  ELSE IF args[i] = "--projectId" /\ i + 1 <= Len(args)
       THEN parseArgsFrom(args, i + 2, [opts EXCEPT !.projectId = args[i + 1]])
  ELSE IF args[i] = "--commit" /\ i + 1 <= Len(args)
       THEN parseArgsFrom(args, i + 2, [opts EXCEPT !.commit = args[i + 1]])
  ELSE IF args[i] = "--pushedBy" /\ i + 1 <= Len(args)
       THEN parseArgsFrom(args, i + 2, [opts EXCEPT !.pushedBy = args[i + 1]])
  ELSE parseArgsFrom(args, i + 1, opts)

parseArgs(args) == parseArgsFrom(args, 1, DefaultOptions)

\* !options.file: null, or the empty string.
NoFile(opts) == opts.file = None \/ opts.file = Some("")

readFileThrowsIfMissing(files, filePath) == filePath \notin DOMAIN files

\* readFile throws when the file does not exist or is larger than
\* MAX_FILE_SIZE bytes.
readFileThrows(files, filePath) ==
  \/ filePath \notin DOMAIN files
  \/ files[filePath] > MAX_FILE_SIZE

\* readFile: the content, known here by the file it came from.
readFile(files, filePath) == [path |-> filePath, size |-> files[filePath]]

\* analyzeMinutes: the request it sends.
analyzeMinutesRequest(content) == [phase |-> "Minutes", content |-> content]

RECURSIVE TrimStart(_)
TrimStart(s) ==
  IF s # <<>> /\ Head(s) \in Whitespace THEN TrimStart(Tail(s)) ELSE s

RECURSIVE TrimEnd(_)
TrimEnd(s) ==
  IF s # <<>> /\ s[Len(s)] \in Whitespace THEN TrimEnd(SubSeq(s, 1, Len(s) - 1)) ELSE s

\* String.prototype.trim()
Trim(s) == TrimEnd(TrimStart(s))

\* .replace(/[\u2018\u2019]/g, "'").replace(/[\u201C\u201D]/g, '"')
FoldQuotes(s) ==
  [i \in DOMAIN s |->
     IF s[i] \in {LSQUO, RSQUO} THEN APOS
     ELSE IF s[i] \in {LDQUO, RDQUO} THEN QUOT
     ELSE s[i]]

normalizeProjectNameAsIs(name) == name

normalizeProjectName(name) == IF name = <<>> THEN <<>> ELSE FoldQuotes(Trim(name))

\* findProjectByName: null for a blank name, for a failed read of the
\* projects collection and when no stored name is equal to the name after
\* normalization; otherwise the first such project in document order.
findProjectByName(projectName, docs, readOk) ==
  IF IsBlank(projectName) \/ ~readOk THEN None
  ELSE LET hits == {i \in DOMAIN docs :
                      normalizeProjectName(docs[i].name) = normalizeProjectName(projectName)}
       IN  IF hits = {} THEN None
           ELSE Some(docs[CHOOSE i \in hits : \A j \in hits : i <= j])

\* analysisResult.projectName, '' when the model gave none.
ProjectNameOf(result) ==
  IF result.projectName = None THEN <<>> ELSE result.projectName[1]

pendingDataApproved(minutesFile, result, metadata, now) ==
  [minutesFilePath        |-> minutesFile,
   projectId              |-> metadata.projectId,
   projectNameFromMinutes |-> metadata.projectNameFromMinutes,
   parsedData             |-> [issues |-> result.issues, todos |-> result.todos],
   metadata               |-> [commit |-> metadata.commit, pushedBy |-> metadata.pushedBy,
                               analyzedAt |-> now, model |-> AI_MODEL],
   status                 |-> "approved",
   createdAt              |-> now]

\* savePendingMinutes: the record it adds (minutesFile, the base name of the
\* path, is left out).
pendingData(minutesFile, result, metadata, now) ==
  [minutesFilePath        |-> minutesFile,
   projectId              |-> metadata.projectId,
   projectNameFromMinutes |-> metadata.projectNameFromMinutes,
   parsedData             |-> [issues |-> result.issues, todos |-> result.todos],
   metadata               |-> [commit |-> metadata.commit, pushedBy |-> metadata.pushedBy,
                               analyzedAt |-> now, model |-> AI_MODEL],
   status                 |-> "pending",
   createdAt              |-> now]

\* The command lines.
ArgvSamples ==
  { <<>>,
    <<"--file">>,
    <<"--file", "">>,
    <<"--file", "a.md">>,
    <<"--projectId", "P9">>,
    <<"--file", "a.md", "--projectId", "P9">>,
    <<"--projectId", "P9", "--file", "a.md">>,
    <<"--file", "a.md", "--projectId">>,
    <<"--file", "a.md", "--commit", "c1", "--pushedBy", "u1">> }

\* The file system: a.md is missing, small, of the largest size accepted, or
\* one byte larger.
FsSamples ==
  { <<>> } \cup { [f \in {"a.md"} |-> size] : size \in {120, MAX_FILE_SIZE, MAX_FILE_SIZE + 1} }

N_CURLY == <<LDQUO, "A", RDQUO>>

N_STRAIGHT == <<QUOT, "A", QUOT>>

N_PADDED == <<" ", QUOT, "A", QUOT, "\t">>

N_LONGER == <<QUOT, "A", "B", QUOT>>

N_BARE == <<"A">>

N_SCURLY == <<LSQUO, "A", RSQUO>>

N_SSTRAIGHT == <<APOS, "A", APOS>>

N_LOWER == <<QUOT, "a", QUOT>>

N_BLANK == <<" ">>

\* The project names the model extracts.
ExtractedNames ==
  {N_CURLY, N_STRAIGHT, N_PADDED, N_LONGER, N_BARE, N_SCURLY, N_SSTRAIGHT, N_LOWER,
   N_BLANK, <<>>}

ProjectDoc(id, name) == [id |-> id, name |-> name]

\* The projects collection; a document without a name has the name ''.
ProjectSamples ==
  { <<>>,
    <<ProjectDoc("P1", N_STRAIGHT)>>,
    <<ProjectDoc("P1", N_CURLY)>>,
    <<ProjectDoc("P1", N_LONGER), ProjectDoc("P2", N_SSTRAIGHT)>>,
    <<ProjectDoc("P1", N_BARE), ProjectDoc("P2", N_PADDED), ProjectDoc("P3", N_STRAIGHT)>>,
    <<ProjectDoc("P1", <<>>), ProjectDoc("P2", N_LOWER)>>,
    <<ProjectDoc("P1", N_BLANK)>> }

\* What the model answers to analyzeMinutes: an error (the request fails or
\* the answer is no JSON) or a result.
MinutesResponses ==
  {[error |-> TRUE, result |-> None]}
  \cup { [error |-> FALSE,
          result |-> Some([projectName |-> n, issues |-> d.issues, todos |-> d.todos])] :
           n \in {None} \cup {Some(x) : x \in ExtractedNames},
           d \in { [issues |-> <<>>, todos |-> <<>>],
                   [issues |-> <<"issue">>, todos |-> <<"todo">>] } }

OldPending ==
  pendingData("old.md", [issues |-> <<>>, todos |-> <<>>],
              [projectId |-> "P1", projectNameFromMinutes |-> N_STRAIGHT,
               commit |-> "", pushedBy |-> ""], 0)

InitMinutes ==
  /\ env \in {e \in EnvSamples : /\ e.REPOSITORY = "org/repo"
                                 /\ e.AI_ANALYSIS_ENABLED /\ e.PHASE2_AI_ENABLED
                                 /\ e.PHASE2_CONFIDENCE_THRESHOLD = 5}
  /\ git \in {g \in GitSamples : g.hash = ""}
  /\ todos \in {s \in StoreSamples : DOMAIN s = {TODO2} /\ s[TODO2].projectId = "P2"}
  /\ pc = "minutes"
  /\ InitCommon
  /\ argv \in ArgvSamples
  /\ fsFiles \in FsSamples
  /\ options = DefaultOptions
  /\ analysisResult = None
  /\ resolvedProjectId = ""
  /\ projectLookup = "not run"
  /\ projectDocs \in ProjectSamples
  /\ issueDocs = <<[id |-> "ISSUE-1"]>>
  /\ pendingMinutes \in {<<>>, <<OldPending>>}
  /\ pending_minutes = <<>>

\* The variables of the auto-close run that the minutes analyzer leaves alone.
autoCloseVars ==
  <<env, git, todos, todos0, clock, filteredFiles, unclosedTodos, results, order,
    phase2Matches, idx, checks, phase3, phase3Results, aiReturned, marks, failed,
    successCount, errorCount, inflight>>

\* main, lines 449-483: the arguments, the key, the file, and the request of
\* analyzeMinutes.
MinutesStart ==
  /\ pc = "minutes"
  /\ LET opts == parseArgs(argv)
     IN  /\ options' = opts
         /\ IF NoFile(opts) \/ ~env.OPENAI_API_KEY
            THEN Exit(1) /\ UNCHANGED calls
            ELSE IF readFileThrows(fsFiles, opts.file[1])
            THEN Exit(1) /\ UNCHANGED calls
            ELSE /\ pc' = "analyze"
                 /\ calls' = Append(calls, analyzeMinutesRequest(readFile(fsFiles, opts.file[1])))
                 /\ UNCHANGED exitCode
  /\ UNCHANGED <<argv, fsFiles, analysisResult, resolvedProjectId, projectLookup, projectDocs,
                 issueDocs, pendingMinutes, pending_minutes>>
  /\ UNCHANGED autoCloseVars

\* main, lines 483-490: the answer of the model; an error ends the run.
MinutesAnalyzed ==
  /\ pc = "analyze"
  /\ \E response \in MinutesResponses :
       IF response.error
       THEN Exit(1) /\ UNCHANGED <<analysisResult, resolvedProjectId>>
       ELSE /\ analysisResult' = response.result
            /\ resolvedProjectId' = options.projectId
            /\ pc' = IF options.projectId = "" /\ ProjectNameOf(response.result[1]) # <<>>
                     THEN "resolve" ELSE "save"
            /\ UNCHANGED exitCode
  /\ UNCHANGED <<argv, fsFiles, options, projectLookup, projectDocs, issueDocs, pendingMinutes,
                 pending_minutes, calls>>
  /\ UNCHANGED autoCloseVars

\* main, lines 490-504, with findProjectByName.  The store may fail to
\* initialize, which ends the run, or fail to read, which findProjectByName
\* turns into "no project".
MinutesResolve ==
  /\ pc = "resolve"
  /\ LET projectName == ProjectNameOf(analysisResult[1])
     IN  \E outcome \in {"ok", "read failed", "init failed"} :
           IF outcome = "init failed" /\ ~IsBlank(projectName)
           THEN Exit(1) /\ UNCHANGED <<resolvedProjectId, projectLookup>>
           ELSE LET project == findProjectByName(projectName, projectDocs, outcome = "ok")
                IN  /\ resolvedProjectId' =
                         IF project # None THEN project[1].id ELSE resolvedProjectId
                    /\ projectLookup' =
                         IF IsBlank(projectName) THEN "blank name"
                         ELSE IF outcome # "ok" THEN "read failed"
                         ELSE IF project # None THEN "found" ELSE "not found"
                    /\ pc' = "save"
                    /\ UNCHANGED exitCode
  /\ UNCHANGED <<argv, fsFiles, options, analysisResult, projectDocs, issueDocs, pendingMinutes,
                 pending_minutes, calls>>
  /\ UNCHANGED autoCloseVars

\* main, lines 506-533, with savePendingMinutes: the record is added to the
\* collection 'pendingMinutes' and the run ends; a failed write ends it with 1.
MinutesSave ==
  /\ pc = "save"
  /\ LET result   == analysisResult[1]
         metadata == [projectId              |-> resolvedProjectId,
                      projectNameFromMinutes |-> ProjectNameOf(result),
                      commit                 |-> options.commit,
                      pushedBy               |-> options.pushedBy]
     IN  \E addOk \in BOOLEAN :
           IF addOk
           THEN /\ pendingMinutes' = Append(pendingMinutes,
                                            pendingData(options.file[1], result, metadata, clock))
                /\ Exit(0)
           ELSE Exit(1) /\ UNCHANGED pendingMinutes
  /\ UNCHANGED <<argv, fsFiles, options, analysisResult, resolvedProjectId, projectLookup,
                 projectDocs, issueDocs, pending_minutes, calls>>
  /\ UNCHANGED autoCloseVars

NextMinutes ==
  \/ MinutesStart
  \/ MinutesAnalyzed
  \/ MinutesResolve
  \/ MinutesSave

SpecMinutes == InitMinutes /\ [][NextMinutes]_vars

(* ------------------------------------------------------------------ *)
(* Helpers of the properties                                           *)
(* ------------------------------------------------------------------ *)

IsPrefix(s, t) == Len(s) <= Len(t) /\ SubSeq(t, 1, Len(s)) = s

Last(s) == s[Len(s)]

\* The ticket ids Phase 1 extracts from the commit message of this run.
Phase1Ids == Range(phase1_extractFromMessage(git.message))

\* The ticket ids of the file name matches of this run.
Phase2Ids == {phase2Matches[i].todoNo : i \in DOMAIN phase2Matches}

\* The ticket ids of the Phase 3 results of this run.
Phase3Ids == {phase3Results[i].todoNo : i \in DOMAIN phase3Results}

\* The requests of one phase sent so far.
CallsOf(phase) == {i \in DOMAIN calls : calls[i].phase = phase}

\* main has passed Phase 1.
AfterPhase1 == pc \in {"phase2", "phase2ai", "phase3", "merge", "persist"}

\* The tickets whose markAsCloseCandidate call returned, and those whose call threw.
Marked == {t \in DOMAIN marks : marks[t] > 0}

FailedIds == {f.todoNo : f \in failed}

\* The run went through the whole persistence loop and exited.
Persisted == pc = "exited" /\ idx = Len(order) /\ Len(order) > 0 /\ phase3 # "not run"

(* ------------------------------------------------------------------ *)
(* Properties                                                          *)
(* ------------------------------------------------------------------ *)

\* C1: in one run the result map holds at most one entry per ticket id and an
\* entry, once written, is never replaced: after Phase 1 every ticket it named
\* holds the Phase 1 entry (status closed), and no step of the run removes or
\* changes an entry or reorders the keys, whatever Phase 2 and Phase 3 return.
C1_FirstWriterWins ==
  /\ [](/\ DOMAIN results = Range(order)
        /\ \A i, j \in DOMAIN order : order[i] = order[j] => i = j
        /\ AfterPhase1 =>
             \A t \in Phase1Ids :
               t \in DOMAIN results /\ results[t] = Phase1Entry /\ results[t].status = "closed")
  /\ [][/\ \A t \in DOMAIN results : t \in DOMAIN results' /\ results'[t] = results[t]
        /\ IsPrefix(order, order')]_vars

\* C1 witness: a ticket named by Phase 1 that the file name match and the Phase 3
\* answer name too, and one accepted by the Phase 2 check that Phase 3 names too.
C1_Witness ==
  /\ pc = "merge"
  /\ \E t \in Phase1Ids \cap Phase2Ids \cap Phase3Ids : results[t].phase = "Phase1"
  /\ \E t \in Phase2Ids \cap Phase3Ids : results[t].phase = "Phase2 (AI)"

\* C2: every diff handed to a model call, the per-file diff of a Phase 2 check
\* as well as the commit diff of Phase 3, is free of secret patterns: no request
\* is sent for a diff that detectSecrets flags.
C2_EveryDiffScanned ==
  \A i \in DOMAIN calls : ~detectSecrets(calls[i].source)

\* Phase 3 ended without results because of a secret or a model error.
C3_Phase3Aborted == phase3 \in {"secret detected", "model error"}

\* C3: when the commit diff matches a secret pattern Phase 3 sends no request,
\* and when the model call throws it sends no second one; either way Phase 3
\* yields no results, leaves the result map as Phase 1 and Phase 2 built it,
\* the run goes on to persistence, and at exit every entry of the map has had
\* its markAsCloseCandidate call, which wrote the ticket unless the ticket does
\* not exist or the store refused the write.
C3_Phase3AbortKeepsResults ==
  /\ [](/\ (/\ env.AI_ANALYSIS_ENABLED
            /\ env.OPENAI_API_KEY
            /\ detectSecrets(getCommitDiff)
            /\ phase3 # "not run") => phase3 = "secret detected"
        /\ phase3 = "secret detected" => CallsOf("Phase3") = {}
        /\ phase3 = "model error" => Cardinality(CallsOf("Phase3")) = 1
        /\ C3_Phase3Aborted =>
             /\ phase3Results = <<>>
             /\ \A t \in DOMAIN results : results[t].phase # "Phase3"
             /\ pc \in {"merge", "persist", "exited"}
             /\ pc = "exited" =>
                  /\ DOMAIN results = Marked \cup (FailedIds \cap DOMAIN results)
                  /\ \A t \in Marked :
                       /\ todos[t].closeCandidate = "ON"
                       /\ Len(todos[t].history) = Len(todos0[t].history) + 1
                       /\ Last(todos[t].history).reason = results[t].reason
                  /\ \A f \in failed :
                       f.message = "not found" <=> f.todoNo \notin DOMAIN todos0)
  /\ [][(pc = "phase3" /\ phase3' \in {"secret detected", "model error"})
          => (results' = results /\ order' = order)]_vars

\* C3 witness: the diff held a secret, Phase 3 was skipped, and the Phase 1 and
\* the Phase 2 entry were both written to the store.
C3_Witness ==
  /\ pc = "exited"
  /\ phase3 = "secret detected"
  /\ \E t1, t2 \in Marked :
       /\ results[t1].phase = "Phase1"
       /\ results[t2].phase = "Phase2 (AI)"

\* C4 as stated: at the end of a run that went through persistence every ticket
\* id Phase 1 extracted is a stored ticket with status closed, its closed date
\* set and its close-candidate flag on.
C4_Original ==
  Persisted =>
    \A t \in Phase1Ids :
      /\ t \in DOMAIN todos
      /\ todos[t].status = STATUS_CLOSED
      /\ todos[t].closedDate # NoDate
      /\ todos[t].closeCandidate = "ON"

\* C4 amended: every ticket id Phase 1 extracts gets the Phase 1 entry with
\* status closed, with no Phase 2 or Phase 3 decision; at the end of a run that
\* went through persistence each of them has had its markAsCloseCandidate call,
\* and the ticket is stored closed, with closed date and close-candidate flag,
\* when that call returned; when it threw (no such ticket, or the store refused
\* the write) the ticket is counted as failed and the store holds it unchanged.
C4_Phase1Closed ==
  /\ AfterPhase1 =>
       \A t \in Phase1Ids :
         t \in DOMAIN results /\ results[t].phase = "Phase1" /\ results[t].status = "closed"
  /\ Persisted =>
       \A t \in Phase1Ids :
         /\ results[t].phase = "Phase1"
         /\ (t \in Marked) # (t \in FailedIds)
         /\ t \in Marked =>
              /\ todos[t].status = STATUS_CLOSED
              /\ todos[t].closedDate # NoDate
              /\ todos[t].closeCandidate = "ON"
         /\ t \in FailedIds =>
              /\ errorCount > 0
              /\ t \in DOMAIN todos => todos[t] = todos0[t]

\* C4 witness: an open ticket named in the commit message is stored closed at
\* the end of the run, and another id of the message has no ticket.
C4_Witness ==
  /\ Persisted
  /\ \E t \in Phase1Ids \cap Marked :
       /\ todos0[t].status = STATUS_OPEN
       /\ todos[t].status = STATUS_CLOSED
  /\ \E t \in Phase1Ids : t \notin DOMAIN todos

\* C5: no request to the model, neither a Phase 2 check nor the Phase 3 call,
\* carries a ticket that Phase 1 matched in this run.
C5_Phase1TicketsNotReprocessed ==
  \A i \in DOMAIN calls : calls[i].todos \cap Phase1Ids = {}

\* C6: a ticket's history is append-only under markAsCloseCandidate: the store
\* keeps one document per ticket, each call that returns appends exactly one
\* entry (the one of that call) after the entries that were there, which stay
\* unchanged and in order; two calls leave the history two entries longer.
C6_HistoryAppendOnly ==
  /\ [](/\ DOMAIN todos = DOMAIN todos0
        /\ \A t \in DOMAIN todos :
             /\ IsPrefix(todos0[t].history, todos[t].history)
             /\ Len(todos[t].history) = Len(todos0[t].history) + marks[t])
  /\ [][\A t \in DOMAIN todos :
          /\ IsPrefix(todos[t].history, todos'[t].history)
          /\ Len(todos'[t].history) = Len(todos[t].history) + (marks'[t] - marks[t])
          /\ marks'[t] > marks[t] => Last(todos'[t].history).at = clock]_vars

\* C6 witness: a ticket that already had a history entry was marked twice and
\* its history holds three entries, the old one first.
C6_Witness ==
  \E t \in DOMAIN todos :
    /\ marks[t] = 2
    /\ Len(todos0[t].history) = 1
    /\ Len(todos[t].history) = 3
    /\ todos[t].history[1] = todos0[t].history[1]

\* The label the history entry of a result of the given phase is to carry.
C7_LabelOf(phase) ==
  IF phase = "Phase1" THEN "Phase1 (commit message)"
  ELSE IF phase \in {"Phase2 (AI)", "Phase2 (plain)"} THEN "Phase2 (file match)"
  ELSE "Phase3 (AI)"

\* C7: the history entry the run writes for a ticket is labelled with the phase
\* that produced the result: Phase 1 for a Phase 1 entry, Phase 2 for a Phase 2
\* entry (with or without the model check), Phase 3 for a Phase 3 entry.
C7_LabelNamesPhase ==
  pc \in {"persist", "exited"} =>
    \A t \in DOMAIN results \cap Marked :
      Last(todos[t].history).method = C7_LabelOf(results[t].phase)

\* C8: the run exits with 1 when there is no commit, when an error escapes
\* main, and when at least one markAsCloseCandidate call failed, whatever the
\* others did; it exits with 0 when there was nothing to close (no open ticket,
\* or an empty result map) and when every entry of the map was written.
C8_ExitCode ==
  pc = "exited" =>
    /\ exitCode \in {0, 1}
    /\ getLatestCommit = None => exitCode = 1
    /\ (getLatestCommit # None /\ unclosedTodos = <<>>) => exitCode = 0
    /\ (getLatestCommit # None /\ phase2Throws(filteredFiles, unclosedTodos)) => exitCode = 1
    /\ (phase3 # "not run" /\ Len(order) = 0) => exitCode = 0
    /\ Persisted =>
         /\ (failed # {} \/ errorCount > 0) => exitCode = 1
         /\ DOMAIN results = Marked => exitCode = 0
         /\ exitCode = 0 => DOMAIN results = Marked

\* C8 witness: one ticket was written, another failed, and the run exited 1.
C8_Witness ==
  /\ Persisted
  /\ exitCode = 1
  /\ Marked # {}
  /\ failed # {}

\* C9: with the Phase 2 model check on and a key present, Phase 2 adds a
\* ticket only with a confidence at or above PHASE2_CONFIDENCE_THRESHOLD; a
\* ticket checked below the threshold gets no Phase 2 entry, is among the
\* tickets of the Phase 3 call, and takes the Phase 3 entry when Phase 3
\* returns it.
C9_Phase2Threshold ==
  /\ \A t \in DOMAIN results :
       results[t].phase = "Phase2 (AI)" =>
         /\ env.PHASE2_AI_ENABLED /\ env.OPENAI_API_KEY
         /\ results[t].aiAnalysis[1].confidence >= env.PHASE2_CONFIDENCE_THRESHOLD
         /\ \E i \in DOMAIN checks :
              /\ checks[i].todoNo = t
              /\ checks[i].confidence = results[t].aiAnalysis[1].confidence
  /\ (env.PHASE2_AI_ENABLED /\ env.OPENAI_API_KEY) =>
       \A t \in DOMAIN results : results[t].phase # "Phase2 (plain)"
  /\ \A i \in DOMAIN checks :
       checks[i].confidence < env.PHASE2_CONFIDENCE_THRESHOLD =>
         LET t == checks[i].todoNo
         IN  /\ t \in DOMAIN results => results[t].phase = "Phase3"
             /\ \A c \in CallsOf("Phase3") : t \in calls[c].todos
             /\ (pc \in {"merge", "persist", "exited"} /\ t \in Phase3Ids) =>
                  t \in DOMAIN results

\* C9 witness: the model answered below the threshold for a ticket, Phase 3
\* returned the ticket, and the map holds its Phase 3 entry.
C9_Witness ==
  /\ pc = "merge"
  /\ \E i \in DOMAIN checks :
       /\ ~checks[i].error
       /\ checks[i].confidence < env.PHASE2_CONFIDENCE_THRESHOLD
       /\ checks[i].todoNo \in DOMAIN results
       /\ results[checks[i].todoNo].phase = "Phase3"

\* C10: a model error in the Phase 2 check of a ticket counts as confidence 0
\* and gives the ticket no Phase 2 entry, whatever the threshold; the loop goes
\* on to the remaining matches in list order, and Phase 3 and persistence run.
C10_Phase2ErrorRejects ==
  /\ \A i \in DOMAIN checks :
       checks[i].error =>
         /\ checks[i].confidence = 0
         /\ checks[i].todoNo \in DOMAIN results =>
              results[checks[i].todoNo].phase # "Phase2 (AI)"
  /\ \A i, j \in DOMAIN checks :
       i < j => \E a, b \in DOMAIN phase2Matches :
                  /\ a < b
                  /\ phase2Matches[a].todoNo = checks[i].todoNo
                  /\ phase2Matches[b].todoNo = checks[j].todoNo
  /\ (checks # <<>> /\ pc = "exited") => (phase3 # "not run" /\ Persisted)

\* C11: with the Phase 2 model check switched off, or with no key, Phase 2
\* sends no request and records no confidence, and every file-name match has
\* an entry: the Phase 1 entry when Phase 1 named the ticket, and otherwise
\* the plain Phase 2 entry, which carries no model analysis.
C11_Phase2Unconditional ==
  ~(env.PHASE2_AI_ENABLED /\ env.OPENAI_API_KEY) =>
    /\ CallsOf("Phase2") = {}
    /\ checks = <<>>
    /\ \A i \in DOMAIN phase2Matches :
         LET t == phase2Matches[i].todoNo
         IN  /\ t \in DOMAIN results
             /\ t \in Phase1Ids => results[t].phase = "Phase1"
             /\ t \notin Phase1Ids =>
                  /\ results[t].phase = "Phase2 (plain)"
                  /\ results[t].aiAnalysis = None
                  /\ results[t].reason = phase2Matches[i].reason

\* C11 witness: the key is there and Phase 3 used it, but the Phase 2 check
\* is off and the matched ticket has its plain Phase 2 entry.
C11_Witness ==
  /\ pc = "merge"
  /\ ~env.PHASE2_AI_ENABLED
  /\ CallsOf("Phase3") # {}
  /\ \E i \in DOMAIN phase2Matches :
       results[phase2Matches[i].todoNo].phase = "Phase2 (plain)"

\* C12: a Phase 3 request is sent only with AI_ANALYSIS_ENABLED set and a key
\* present; every Phase 3 entry of the result map is a result the model
\* returned with a confidence at or above AI_CONFIDENCE_THRESHOLD, and so is
\* the analysis stored with a ticket marked from a Phase 3 entry.
C12_Phase3Threshold ==
  /\ CallsOf("Phase3") # {} => (env.AI_ANALYSIS_ENABLED /\ env.OPENAI_API_KEY)
  /\ \A i \in DOMAIN phase3Results :
       phase3Results[i].confidence >= env.AI_CONFIDENCE_THRESHOLD
  /\ \A t \in DOMAIN results :
       results[t].phase = "Phase3" =>
         /\ results[t].aiAnalysis[1].confidence >= env.AI_CONFIDENCE_THRESHOLD
         /\ \E i \in DOMAIN aiReturned :
              /\ aiReturned[i].todoNo = t
              /\ aiReturned[i].confidence = results[t].aiAnalysis[1].confidence
         /\ t \in Marked =>
              todos[t].aiAnalysis[1].confidence >= env.AI_CONFIDENCE_THRESHOLD

\* C12 witness: the model returned one ticket below the threshold and one at
\* it; the first has no entry and the second was written from its Phase 3
\* entry.
C12_Witness ==
  /\ Persisted
  /\ \E i, j \in DOMAIN aiReturned :
       /\ aiReturned[i].confidence < env.AI_CONFIDENCE_THRESHOLD
       /\ aiReturned[i].todoNo \notin DOMAIN results
       /\ aiReturned[j].confidence >= env.AI_CONFIDENCE_THRESHOLD
       /\ aiReturned[j].todoNo \in Marked
       /\ results[aiReturned[j].todoNo].phase = "Phase3"

\* a is the text of the first TextLen(a) characters of b.
C13_IsTextPrefix(a, b) ==
  /\ Len(a) <= Len(b)
  /\ \A i \in 1..(Len(a) - 1) : a[i] = b[i]
  /\ a # <<>> =>
       /\ a[Len(a)].ch = b[Len(a)].ch
       /\ a[Len(a)].f = b[Len(a)].f
       /\ a[Len(a)].n <= b[Len(a)].n

\* C13: the diff text of a request is bounded.  The Phase 3 request carries
\* the commit diff unchanged when it has at most MAX_DIFF_SIZE characters and
\* exactly its first MAX_DIFF_SIZE characters when it is longer; a Phase 2
\* request carries the first PHASE2_DIFF_SIZE characters of the file diff, or
\* all of it when it is shorter.
C13_DiffBounded ==
  \A i \in DOMAIN calls :
    LET sent   == calls[i].diff
        source == calls[i].source
    IN  /\ C13_IsTextPrefix(sent, source)
        /\ calls[i].phase = "Phase3" =>
             /\ TextLen(source) <= MAX_DIFF_SIZE => sent = source
             /\ TextLen(source) > MAX_DIFF_SIZE => TextLen(sent) = MAX_DIFF_SIZE
        /\ calls[i].phase = "Phase2" =>
             /\ TextLen(sent) <= PHASE2_DIFF_SIZE
             /\ TextLen(source) <= PHASE2_DIFF_SIZE => sent = source
             /\ TextLen(source) > PHASE2_DIFF_SIZE => TextLen(sent) = PHASE2_DIFF_SIZE

\* C13 witness: a file diff longer than PHASE2_DIFF_SIZE went to a Phase 2
\* check cut to that size, and the commit diff, longer than MAX_DIFF_SIZE,
\* went to Phase 3 cut to MAX_DIFF_SIZE.
C13_Witness ==
  /\ \E i \in CallsOf("Phase2") :
       /\ TextLen(calls[i].source) > PHASE2_DIFF_SIZE
       /\ TextLen(calls[i].diff) = PHASE2_DIFF_SIZE
  /\ \E i \in CallsOf("Phase3") :
       /\ TextLen(calls[i].source) > MAX_DIFF_SIZE
       /\ TextLen(calls[i].diff) = MAX_DIFF_SIZE

\* C14: the diff text of the Phase 3 request holds no diff content of a
\* changed file whose path is on the exclusion list.
C14_NoExcludedFileInDiff ==
  \A i \in CallsOf("Phase3") :
    \A k \in DOMAIN calls[i].diff : ~isExcludedFile(calls[i].diff[k].f)

\* The matches of COMMIT_PATTERN in s, stated position by position: a verb
\* at i in any case, a colon, whitespace up to j, "TODO-" in any case, and
\* the digits from j + 5 up to e - 1, all digits there are.  Each is given as
\* the id 'TODO-' + digits.
C15_Occurrences(s) ==
  { TODO_PREFIX \o SubSeq(s, j + 5, e - 1) :
      <<j, e>> \in { je \in (1..Len(s)) \X (1..(Len(s) + 1)) :
        LET j == je[1]
            e == je[2]
        IN  /\ HasAtNoCase(s, j, <<"t","o","d","o","-">>)
            /\ e > j + 5
            /\ \A k \in (j + 5)..(e - 1) : s[k] \in Digits
            /\ e <= Len(s) => s[e] \notin Digits
            /\ \E v \in COMMIT_VERBS, i \in 1..j :
                 /\ HasAtNoCase(s, i, v)
                 /\ i + Len(v) < j
                 /\ s[i + Len(v)] = ":"
                 /\ \A k \in (i + Len(v) + 1)..(j - 1) : s[k] \in Whitespace } }

\* C15: for every commit message phase1_extractFromMessage returns the ids
\* TODO-<digits> of the occurrences of a closing verb followed by a ticket
\* identifier, each id once; a message made of repetitions of
\* "Closes: TODO-12" gives exactly [TODO-12].
C15_Phase1Extracts ==
  pc = "phase2" =>
    /\ order = phase1_extractFromMessage(git.message)
    /\ \A i, j \in DOMAIN order : order[i] = order[j] => i = j
    /\ Range(order) = C15_Occurrences(git.message)
    /\ (\E n \in 1..MaxTokens :
          git.message = Concat([k \in 1..n |-> K_CLOSES12])) => order = <<TODO12>>
    /\ (\E n \in 1..MaxTokens :
          git.message = Concat([k \in 1..n |-> IF k % 2 = 1 THEN K_CLOSES12 ELSE <<"\n">>]))
         => order = <<TODO12>>

\* C15 witness: "Closes: TODO-12" on two lines gave the one id TODO-12.
C15_Witness ==
  /\ pc = "phase2"
  /\ git.message = K_CLOSES12 \o <<"\n">> \o K_CLOSES12
  /\ order = <<TODO12>>

\* C16: a markAsCloseCandidate call that throws writes nothing, is counted,
\* and the loop goes on to the next key; at the end every key of the result
\* map has had exactly one call, the tickets of the failed ones are as they
\* were before the run, and one failure makes the exit code 1.
C16_PersistenceFailureIsLocal ==
  /\ [](/\ pc = "persist" =>
             Marked \cup FailedIds = {order[k] : k \in 1..(idx - 1)}
        /\ Persisted =>
             /\ \A t \in DOMAIN results : (t \in Marked) # (t \in FailedIds)
             /\ \A t \in FailedIds : t \in DOMAIN todos => todos[t] = todos0[t]
             /\ errorCount = Cardinality(failed)
             /\ successCount = Cardinality(Marked)
             /\ failed # {} => exitCode = 1)
  /\ [][(pc = "persist" /\ failed' # failed) =>
          /\ todos' = todos
          /\ errorCount' = errorCount + 1
          /\ idx < Len(order) => (pc' = "persist" /\ idx' = idx + 1)]_vars

\* C16 witness: the first key had no ticket, the call for it threw, and the
\* ticket of a later key was written all the same; the run exited with 1.
C16_Witness ==
  /\ Persisted
  /\ exitCode = 1
  /\ \E i, j \in DOMAIN order :
       /\ i < j
       /\ [todoNo |-> order[i], message |-> "not found"] \in failed
       /\ order[j] \in Marked
       /\ todos[order[j]] # todos0[order[j]]

\* The params of the call that wrote the history entry.
C17_ParamsOf(entry) == CHOOSE q \in ParamSamples : historyEntry(q, entry.at) = entry

\* C17: a call of markAsCloseCandidate that returns changes the status only
\* for a params.status of closed, in_progress or review_pending and the
\* closed date only for closed; with any other status, the empty status of
\* the Phase 2 and Phase 3 entries included, status and closed date stay; the
\* document keeps its fields, and those other than close-candidate flag,
\* status, closed date, model analysis, history and modified date keep their
\* values.  A call that throws changes nothing.
C17_MarkFrame ==
  [][\A t \in DOMAIN todos :
       LET old == todos[t]
           new == todos'[t]
       IN  IF marks'[t] > marks[t]
           THEN LET q == C17_ParamsOf(Last(new.history))
                IN  /\ new.status # old.status =>
                         q.status \in {"closed", "in_progress", "review_pending"}
                    /\ q.status = "closed" =>
                         (new.status = STATUS_CLOSED /\ new.closedDate = clock)
                    /\ q.status = "in_progress" => new.status = STATUS_IN_PROGRESS
                    /\ q.status = "review_pending" => new.status = STATUS_REVIEW_PENDING
                    /\ q.status \notin {"closed", "in_progress", "review_pending"} =>
                         new.status = old.status
                    /\ q.status # "closed" => new.closedDate = old.closedDate
                    /\ q.aiAnalysis = None => new.aiAnalysis = old.aiAnalysis
                    /\ new.closeCandidate = "ON"
                    /\ DOMAIN new = DOMAIN old
                    /\ \A k \in DOMAIN old \ {"closeCandidate", "status", "closedDate",
                                               "aiAnalysis", "history", "updatedDate"} :
                         new[k] = old[k]
           ELSE new = old]_vars

\* C17 witness: a ticket was marked once with the status "cancelled", which
\* is not one of the three: it is a close candidate with its old status and
\* closed date.
C17_Witness ==
  \E t \in DOMAIN todos :
    /\ marks[t] = 1
    /\ C17_ParamsOf(Last(todos[t].history)).status = "cancelled"
    /\ todos[t].closeCandidate = "ON"
    /\ todos[t].status = todos0[t].status
    /\ todos[t].closedDate = todos0[t].closedDate

C19_TooLarge ==
  /\ options.file # None
  /\ options.file[1] \in DOMAIN fsFiles
  /\ fsFiles[options.file[1]] > 50000

\* The run was given no file, no key, or a file that is too large.
C19_Rejected == NoFile(options) \/ ~env.OPENAI_API_KEY \/ C19_TooLarge

\* C19: a run without --file, without OPENAI_API_KEY, or with a file larger
\* than 50000 bytes ends with exit code 1, has sent no request to the model
\* and has changed no collection of the store.
C19_RejectedBeforeModelCall ==
  /\ []((pc = "exited" /\ C19_Rejected) =>
          /\ exitCode = 1
          /\ calls = <<>>
          /\ analysisResult = None)
  /\ [][C19_Rejected' =>
          /\ pendingMinutes' = pendingMinutes
          /\ pending_minutes' = pending_minutes
          /\ todos' = todos
          /\ issueDocs' = issueDocs
          /\ projectDocs' = projectDocs]_vars

\* C19 witness: the key is set and the file is one byte over the limit; the
\* run ended with 1 before any request.
C19_Witness ==
  /\ pc = "exited"
  /\ exitCode = 1
  /\ env.OPENAI_API_KEY
  /\ C19_TooLarge
  /\ fsFiles[options.file[1]] = 50001
  /\ calls = <<>>

\* A name without the whitespace at its ends and with every curly quote
\* replaced by the straight one.
C20_Normal(name) ==
  LET keep == {i \in DOMAIN name : name[i] \notin Whitespace}
  IN  IF keep = {} THEN <<>>
      ELSE LET first == CHOOSE i \in keep : \A j \in keep : i <= j
               last  == CHOOSE i \in keep : \A j \in keep : j <= i
           IN  [k \in 1..(last - first + 1) |->
                  LET c == name[first + k - 1]
                  IN  IF c \in {"u2018", "u2019"} THEN "'"
                      ELSE IF c \in {"u201C", "u201D"} THEN "\""
                      ELSE c]

\* The stored projects whose name equals the extracted one after normalization.
C20_Matches ==
  {i \in DOMAIN projectDocs :
     C20_Normal(projectDocs[i].name) = C20_Normal(ProjectNameOf(analysisResult[1]))}

\* Project resolution is over: the record is about to be written or was.
C20_Resolved == pc = "save" \/ (pc = "exited" /\ exitCode = 0)

\* C20 as stated: a given --projectId is used as is, without a lookup; with
\* none given and a name extracted, the record is linked to a stored project
\* exactly when the two names are equal after normalization.
C20_Original ==
  C20_Resolved =>
    /\ options.projectId # "" =>
         (resolvedProjectId = options.projectId /\ projectLookup = "not run")
    /\ (options.projectId = "" /\ ProjectNameOf(analysisResult[1]) # <<>>) =>
         /\ resolvedProjectId # "" <=> C20_Matches # {}
         /\ resolvedProjectId # "" =>
              \E i \in C20_Matches : projectDocs[i].id = resolvedProjectId

\* C20 amended: a given --projectId is used as is, without a lookup; with
\* none given and a name extracted, the record is linked to a stored project
\* exactly when the name is not blank, the projects collection could be read
\* and a stored name equals the extracted one after normalization; the
\* project is then the first such in document order.  Names that differ in
\* curly and straight quotes only are equal, a name that is part of the other
\* is not.
C20_ProjectResolution ==
  C20_Resolved =>
    LET name == ProjectNameOf(analysisResult[1])
    IN  /\ options.projectId # "" =>
             (resolvedProjectId = options.projectId /\ projectLookup = "not run")
        /\ (options.projectId = "" /\ name = <<>>) =>
             (resolvedProjectId = "" /\ projectLookup = "not run")
        /\ (options.projectId = "" /\ name # <<>>) =>
             /\ resolvedProjectId # "" <=>
                  /\ C20_Matches # {}
                  /\ \E k \in DOMAIN name : name[k] \notin Whitespace
                  /\ projectLookup # "read failed"
             /\ resolvedProjectId # "" =>
                  \E i \in C20_Matches :
                    /\ projectDocs[i].id = resolvedProjectId
                    /\ \A j \in C20_Matches : i <= j
        /\ pc = "exited" => Last(pendingMinutes).projectId = resolvedProjectId

\* C20 witness: the minutes name the project in curly quotes; of the stored
\* names "A", the padded straight-quoted one and the straight-quoted one, the
\* second is the first equal one, and the record is linked to its project.
C20_Witness ==
  /\ pc = "exited"
  /\ exitCode = 0
  /\ options.projectId = ""
  /\ ProjectNameOf(analysisResult[1]) = N_CURLY
  /\ Len(projectDocs) = 3
  /\ projectDocs[1].name = N_BARE
  /\ resolvedProjectId = "P2"
  /\ Last(pendingMinutes).projectId = "P2"

(* ------------------------------------------------------------------ *)
(* Phase 2 file name matching, over many patterns and changed files    *)
(* ------------------------------------------------------------------ *)

\* The most changed files of a commit of the specification SpecMatch.
MaxFiles == 2

P_BARE == <<"f","o","o",".","t","s">>

P_DOT == <<"s","r","c","/",".","f","o","o",".","t","s">>

P_DEEP == <<"s","r","c","/","a","/","f","o","o",".","t","s">>

P_SPACE == <<"a"," ","b",".","t","s">>

PathSamples == {P_FOO, P_BARE, P_DOT, P_DEEP, P_SPACE}

A_BAK == StringArtifact(P_FOO \o <<".","b","a","k">>)

A_GLOBSTAR == StringArtifact(<<"*","*","/","*",".","t","s">>)

A_QUESTION == StringArtifact(<<"s","r","c","/","f","o","?",".","t","s">>)

A_STAR == StringArtifact(<<"*",".","t","s">>)

A_EMPTY == StringArtifact(<<>>)

A_BLANK == StringArtifact(<<" ">>)

ArtifactSamples ==
  {A_FOO, A_GLOB, A_BAR, A_BAK, A_GLOBSTAR, A_QUESTION, A_STAR, A_EMPTY, A_BLANK, NoArtifact,
   NumberArtifact}

\* The commits: up to MaxFiles changed files, no path twice.
MatchGitSamples ==
  [hash    : {"0123456789abcdef"},
   message : {M_NONE},
   files   : { [i \in DOMAIN ps |-> Changed(ps[i], T_PLAIN)] :
                 ps \in {qs \in SeqsUpTo(PathSamples, MaxFiles) :
                           \A i, j \in DOMAIN qs : i # j => qs[i] # qs[j]} }]

MatchStoreSamples ==
  { [id \in {TODO1, TODO2} |->
       NewTicket(id, "P1", STATUS_OPEN, IF id = TODO1 THEN a ELSE b, <<>>)] :
      a \in ArtifactSamples, b \in ArtifactSamples }

InitMatch ==
  /\ env \in {e \in EnvSamples : /\ e.REPOSITORY = ""
                                  /\ ~e.AI_ANALYSIS_ENABLED /\ ~e.PHASE2_AI_ENABLED
                                  /\ e.OPENAI_API_KEY
                                  /\ e.PHASE2_CONFIDENCE_THRESHOLD = 5}
  /\ git \in MatchGitSamples
  /\ todos \in MatchStoreSamples
  /\ pc = "start"
  /\ InitCommon
  /\ MinutesIdle

NextMatch == Start \/ Phase1 \/ Phase2Match

SpecMatch == InitMatch /\ [][NextMatch]_vars

\* phase2_matchByFileName has returned its matches.
C21_Matched == pc = "phase3"

\* The matches reported for one ticket.
C21_MatchesOf(todo) == SelectSeq(phase2Matches, LAMBDA m : m.todoNo = todo.ToDoNo)

\* The match rule as stated: glob for a pattern with * or ?, otherwise
\* containment in either direction.
C21_Rule(pattern, file) ==
  IF \E i \in DOMAIN pattern : pattern[i] \in {"*", "?"}
  THEN minimatch(file, pattern)
  ELSE \/ \E i \in 0..(Len(file) - Len(pattern)) :
            SubSeq(file, i + 1, i + Len(pattern)) = pattern
       \/ \E i \in 0..(Len(pattern) - Len(file)) :
            SubSeq(pattern, i + 1, i + Len(file)) = file

\* What is reported for a ticket whose pattern takes part in the matching:
\* nothing when no changed file matches, else one match naming the first
\* changed file that matches.
C21_ReportedFor(todo) ==
  LET hits == {k \in DOMAIN filteredFiles : C21_Rule(todo.artifact.s, filteredFiles[k])}
      ms   == C21_MatchesOf(todo)
  IN  IF hits = {} THEN ms = <<>>
      ELSE /\ Len(ms) = 1
           /\ \E k \in hits : /\ ms[1].matchedFile = filteredFiles[k]
                              /\ \A j \in hits : k <= j

RaceParams == {p \in ParamSamples : p.commitHash # "" /\ p.status \in {"closed", ""}}

InitRace ==
  /\ env \in {e \in EnvSamples : e.REPOSITORY = "org/other"}
  /\ git \in {g \in GitSamples : g.hash = ""}
  /\ todos \in StoreSamples
  /\ pc = "race"
  /\ InitCommon
  /\ MinutesIdle

\* markAsCloseCandidate, lines 296-351, in invocation r: the read of the
\* ticket and the document built from it, up to the await of the write.
RaceRead(r) ==
  /\ pc = "race"
  /\ inflight[r].pc = "ready"
  /\ \E todoNo \in {TODO1, TODO2}, params \in RaceParams :
       IF todoNo \notin DOMAIN todos
       THEN /\ inflight' = [inflight EXCEPT ![r] = [pc |-> "threw", todoNo |-> todoNo, todo |-> <<>>]]
            /\ failed' = failed \cup {[todoNo |-> todoNo, message |-> "not found"]}
       ELSE /\ inflight' = [inflight EXCEPT ![r] =
                              [pc     |-> "read",
                               todoNo |-> todoNo,
                               todo   |-> MarkedTodo(todos[todoNo], params, clock)]]
            /\ UNCHANGED failed
  /\ clock' = clock + 1
  /\ UNCHANGED <<env, git, todos, todos0, pc, filteredFiles, unclosedTodos, results, order,
                 phase2Matches, idx, calls, checks, phase3, phase3Results, aiReturned, marks,
                 successCount, errorCount, exitCode>>
  /\ UNCHANGED minutesVars

\* markAsCloseCandidate, lines 353-358, in invocation r: the write of the
\* document built from what was read, and the return or the throw.
RaceWrite(r) ==
  /\ pc = "race"
  /\ inflight[r].pc = "read"
  /\ \E writeOk \in BOOLEAN :
       LET todoNo == inflight[r].todoNo
       IN  IF writeOk
           THEN /\ todos' = [todos EXCEPT ![todoNo] = MergeSet(@, inflight[r].todo)]
                /\ marks' = [marks EXCEPT ![todoNo] = @ + 1]
                /\ inflight' = [inflight EXCEPT ![r].pc = "returned"]
                /\ UNCHANGED failed
           ELSE /\ failed' = failed \cup {[todoNo |-> todoNo, message |-> "write failed"]}
                /\ inflight' = [inflight EXCEPT ![r].pc = "threw"]
                /\ UNCHANGED <<todos, marks>>
  /\ UNCHANGED <<env, git, todos0, clock, pc, filteredFiles, unclosedTodos, results, order,
                 phase2Matches, idx, calls, checks, phase3, phase3Results, aiReturned,
                 successCount, errorCount, exitCode>>
  /\ UNCHANGED minutesVars

NextRace == \E r \in Invocations : RaceRead(r) \/ RaceWrite(r)

SpecRace == InitRace /\ [][NextRace]_vars

\* C22: when the markAsCloseCandidate calls of two invocations on the same
\* ticket have both returned, however their reads and writes interleaved, the
\* stored history is the history from before followed by the entries of both
\* invocations.
C22_NoHistoryEntryLost ==
  (/\ inflight["A"].pc = "returned"
   /\ inflight["B"].pc = "returned"
   /\ inflight["A"].todoNo = inflight["B"].todoNo) =>
    LET t  == inflight["A"].todoNo
        h  == todos[t].history
        h0 == todos0[t].history
    IN  /\ Len(h) = Len(h0) + 2
        /\ SubSeq(h, 1, Len(h0)) = h0
        /\ \A r \in Invocations :
             \E i \in (Len(h0) + 1)..Len(h) : h[i] = Last(inflight[r].todo.history)

\* The tickets of the list getUnclosedTodos returned at the start of the run.
C23_Fetched == {unclosedTodos[i].ToDoNo : i \in DOMAIN unclosedTodos}

\* C23: a run writes only to tickets of the list of unclosed tickets it
\* fetched at its start; every other ticket of the store, such as a closed
\* one or one of another project, stays as it was, whatever ticket IDs the
\* commit message or the Phase 3 answer name.
C23_OnlyFetchedTicketsWritten ==
  \A id \in DOMAIN todos : todos[id] # todos0[id] => id \in C23_Fetched

\* The same for the IDs of the commit message alone: Phase 3 is off.
C23_ByCommitMessage == ~env.AI_ANALYSIS_ENABLED => C23_OnlyFetchedTicketsWritten

\* The same for the IDs of the Phase 3 answer alone: the commit message
\* names no ticket.
C23_ByModelAnswer == git.message = M_NONE => C23_OnlyFetchedTicketsWritten

\* C24: in Phase 3 the secret scan reads the whole commit diff, before it is
\* cut to MAX_DIFF_SIZE characters: a diff that holds a secret pattern
\* anywhere, also past the first MAX_DIFF_SIZE characters, ends the step with
\* no request sent, so no Phase 3 request carries the prefix of such a diff.
C24_ScanBeforeTruncation ==
  /\ \A i \in CallsOf("Phase3") : ~detectSecrets(calls[i].source)
  /\ (/\ detectSecrets(getCommitDiff)
      /\ phase3 \notin {"not run", "disabled", "no key"}) =>
       /\ phase3 = "secret detected"
       /\ CallsOf("Phase3") = {}
       /\ phase3Results = <<>>

\* C24 witness: the commit diff is longer than MAX_DIFF_SIZE, its secret lies
\* outside the part that would be kept, and Phase 3 stopped without a request.
C24_Witness ==
  /\ phase3 = "secret detected"
  /\ TextLen(getCommitDiff) > MAX_DIFF_SIZE
  /\ detectSecrets(getCommitDiff)
  /\ ~detectSecrets(Slice(getCommitDiff, MAX_DIFF_SIZE))
  /\ CallsOf("Phase3") = {}

====
